---- MODULE Spec2Model ----
(***************************************************************************)
(* Verification model of the Auctorian core: the Agency (Auctobot), the    *)
(* schema registry of the DomainManager, the PolicyEngine, the Ledger and  *)
(* the IngestionEngine.  Every subsystem has its own specification over    *)
(* the shared state; a subsystem's actions leave the others' state alone.  *)
(***************************************************************************)
EXTENDS Integers, Sequences, FiniteSets, TLC

VARIABLES
    queue,            \* Auctobot.queue: list of packages
    history,          \* Auctobot.history: list of packages
    executed_hashes,  \* Auctobot._executed_hashes
    status,           \* DecisionPackage.status of every package object
    ledger_entries,   \* transactions recorded by ledger.record_transaction
    tpc, tidx, tshared, tlist, tres, tpkg,   \* request threads inside the Auctobot
    schema_registry,  \* table schema_registry: the rows stored
    system_config,    \* table system_config: the value of SYSTEM_LOCKED
    governance_policies,  \* table governance_policies: the rows stored
    claims_ledger,    \* table claims_ledger: the rows, in insertion order
    clock,            \* datetime.now(), in seconds
    universal_events, \* table universal_events of src/auctorian
    backend_events,   \* table universal_events of src/backend (SQLite)
    universal_objects, \* table universal_objects of the file engine
    backend_objects,  \* table universal_objects of the stream engine
    debate_tickets,   \* table debate_tickets: the rows stored
    approvals,        \* the actions validate_action has approved so far
    schema_call,      \* the schema request that has passed its lock check
    ret               \* the last call: its name, arguments and result

agencyVars == <<queue, history, executed_hashes, status, ledger_entries>>
threadVars == <<tpc, tidx, tshared, tlist, tres, tpkg>>
schemaVars == <<schema_registry, system_config>>
policyVars == <<governance_policies>>
ledgerVars == <<claims_ledger, clock>>
ingestVars == <<universal_events, backend_events>>
debateVars == <<debate_tickets, approvals>>
objectVars == <<universal_objects, backend_objects>>
schemaCallVars == <<schema_call>>

None == "None"

\* ------------------------------------------------------------------------
\* Bounds of the model
\* ------------------------------------------------------------------------
MaxQueue == 3
MaxHistory == 3
MaxConcQueue == 2
MaxConcHistory == 2
MaxDebateQueue == 1
MaxDebatePkgs == 2

\* ------------------------------------------------------------------------
\* Agency: DecisionPackage and Auctobot (src/backend/core/agency.py)
\* ------------------------------------------------------------------------

\* The package objects that exist.  p1 and p2 are two objects built with the
\* same action, target, quantity, timestamp and nonce; p3 differs in the nonce;
\* p4 carries an action execute_batch does not know.
Pkgs == {"p1", "p2", "p3", "p4"}

\* The package objects resolve_ticket constructs, in the order it constructs
\* them for an action: every one has a nonce of its own.
TicketPkgs == {"kR1", "kR2", "kP1", "kP2"}

AllPkgs == Pkgs \cup TicketPkgs

\* The fields a DecisionPackage is constructed with; a field is the sequence of
\* the pieces of its text.
PkgFields(p) ==
    CASE p = "p1" -> [action |-> <<"REPLENISH">>, target_id |-> <<"SKU", "1">>,
                      quantity |-> <<"5">>, timestamp |-> <<"T1">>, nonce |-> <<"n1">>]
      [] p = "p2" -> [action |-> <<"REPLENISH">>, target_id |-> <<"SKU", "1">>,
                      quantity |-> <<"5">>, timestamp |-> <<"T1">>, nonce |-> <<"n1">>]
      [] p = "p3" -> [action |-> <<"PRICE_CHANGE">>, target_id |-> <<"SKU", "1">>,
                      quantity |-> <<"5">>, timestamp |-> <<"T1">>, nonce |-> <<"n2">>]
      [] p = "p4" -> [action |-> <<"MARKDOWN">>, target_id |-> <<"SKU", "1">>,
                      quantity |-> <<"5">>, timestamp |-> <<"T1">>, nonce |-> <<"n3">>]
      [] p = "kR1" -> [action |-> <<"REPLENISH">>, target_id |-> <<"SKU", "1">>,
                       quantity |-> <<"5">>, timestamp |-> <<"T2">>, nonce |-> <<"n4">>]
      [] p = "kR2" -> [action |-> <<"REPLENISH">>, target_id |-> <<"SKU", "1">>,
                       quantity |-> <<"5">>, timestamp |-> <<"T3">>, nonce |-> <<"n5">>]
      [] p = "kP1" -> [action |-> <<"PRICE_CHANGE">>, target_id |-> <<"SKU", "1">>,
                       quantity |-> <<"5">>, timestamp |-> <<"T2">>, nonce |-> <<"n6">>]
      [] p = "kP2" -> [action |-> <<"PRICE_CHANGE">>, target_id |-> <<"SKU", "1">>,
                       quantity |-> <<"5">>, timestamp |-> <<"T3">>, nonce |-> <<"n7">>]

\* _generate_hash: the digest of the concatenated field texts (the digest is
\* one-to-one on its payload, so the payload stands for it).
GenerateHash(f) == f.action \o f.target_id \o f.quantity \o f.timestamp \o f.nonce

PkgHash(p) == GenerateHash(PkgFields(p))
PkgAction(p) == PkgFields(p).action

\* The fields two packages can be built with, for the hash alone: the texts
\* 'SKU' and 'SKU1' of a target, 5 and 15 of a quantity, two instants, two
\* nonces.
HashFields ==
    [action : {<<"REPLENISH">>},
     target_id : {<<"SKU">>, <<"SKU", "1">>},
     quantity : {<<"5">>, <<"1", "5">>},
     timestamp : {<<"T1">>, <<"T2">>},
     nonce : {<<"n1">>, <<"n2">>}]

\* _generate_hash() of two packages
GenerateHashes(f, g) ==
    /\ ret' = [op |-> "generate_hash", f |-> f, g |-> g,
               hash_f |-> GenerateHash(f), hash_g |-> GenerateHash(g)]
    /\ UNCHANGED <<agencyVars, threadVars>>

\* ledger.record_transaction(target, account, amount, meta): one appended entry.
RecordTransaction(entries, p, account) ==
    Append(entries, [entity |-> PkgFields(p).target_id, account |-> account,
                     amount |-> PkgFields(p).quantity, pkg_id |-> p,
                     hash |-> PkgHash(p)])

\* The account execute_batch books an action to; None for an unknown action.
DispatchAccount(p) ==
    IF PkgAction(p) = <<"REPLENISH">> THEN "RECEIPTS_QTY"
    ELSE IF PkgAction(p) = <<"PRICE_CHANGE">> THEN "PRICE"
    ELSE None

\* The state execute_batch works on while it iterates.
BatchState == [executed |-> executed_hashes, history |-> history, status |-> status,
               ledger |-> ledger_entries, results |-> <<>>]

\* One iteration that marks the hash of a failed package as executed
ProcessPkg_MarkFailed(p, st, ledger_ok) ==
    IF PkgHash(p) \in st.executed
    THEN [st EXCEPT !.status[p] = "SKIPPED",
                    !.results = Append(@, [id |-> p, status |-> "SKIPPED"])]
    ELSE IF DispatchAccount(p) # None /\ ledger_ok
    THEN [st EXCEPT !.ledger = RecordTransaction(@, p, DispatchAccount(p)),
                    !.status[p] = "EXECUTED",
                    !.executed = @ \cup {PkgHash(p)},
                    !.history = Append(@, p),
                    !.results = Append(@, [id |-> p, status |-> "SUCCESS"])]
    ELSE [st EXCEPT !.status[p] = "FAILED",
                    !.executed = @ \cup {PkgHash(p)},
                    !.history = Append(@, p),
                    !.results = Append(@, [id |-> p, status |-> "FAILED"])]

\* One iteration of execute_batch's loop, for package p; ledger_ok tells whether
\* record_transaction returns (TRUE) or raises (FALSE).
ProcessPkg_NoMark(p, st, ledger_ok) ==
    IF PkgHash(p) \in st.executed
    THEN [st EXCEPT !.status[p] = "SKIPPED",
                    !.results = Append(@, [id |-> p, status |-> "SKIPPED"])]
    ELSE IF DispatchAccount(p) # None /\ ledger_ok
    THEN [st EXCEPT !.ledger = RecordTransaction(@, p, DispatchAccount(p)),
                    !.status[p] = "EXECUTED",
                    !.history = Append(@, p),
                    !.results = Append(@, [id |-> p, status |-> "SUCCESS"])]
    ELSE [st EXCEPT !.status[p] = "FAILED",
                    !.history = Append(@, p),
                    !.results = Append(@, [id |-> p, status |-> "FAILED"])]

ProcessPkg_NoCheck(p, st, ledger_ok) ==
    IF DispatchAccount(p) # None /\ ledger_ok
    THEN [st EXCEPT !.ledger = RecordTransaction(@, p, DispatchAccount(p)),
                    !.status[p] = "EXECUTED",
                    !.executed = @ \cup {PkgHash(p)},
                    !.history = Append(@, p),
                    !.results = Append(@, [id |-> p, status |-> "SUCCESS"])]
    ELSE [st EXCEPT !.status[p] = "FAILED",
                    !.history = Append(@, p),
                    !.results = Append(@, [id |-> p, status |-> "FAILED"])]

ProcessPkg_DropFailed(p, st, ledger_ok) ==
    IF PkgHash(p) \in st.executed
    THEN [st EXCEPT !.status[p] = "SKIPPED",
                    !.results = Append(@, [id |-> p, status |-> "SKIPPED"])]
    ELSE IF DispatchAccount(p) # None /\ ledger_ok
    THEN [st EXCEPT !.ledger = RecordTransaction(@, p, DispatchAccount(p)),
                    !.status[p] = "EXECUTED",
                    !.executed = @ \cup {PkgHash(p)},
                    !.history = Append(@, p),
                    !.results = Append(@, [id |-> p, status |-> "SUCCESS"])]
    ELSE [st EXCEPT !.status[p] = "FAILED"]

ProcessPkg(p, st, ledger_ok) ==
    IF PkgHash(p) \in st.executed
    THEN [st EXCEPT !.status[p] = "SKIPPED",
                    !.results = Append(@, [id |-> p, status |-> "SKIPPED"])]
    ELSE IF DispatchAccount(p) # None /\ ledger_ok
    THEN [st EXCEPT !.ledger = RecordTransaction(@, p, DispatchAccount(p)),
                    !.status[p] = "EXECUTED",
                    !.executed = @ \cup {PkgHash(p)},
                    !.history = Append(@, p),
                    !.results = Append(@, [id |-> p, status |-> "SUCCESS"])]
    ELSE [st EXCEPT !.status[p] = "FAILED",
                    !.history = Append(@, p),
                    !.results = Append(@, [id |-> p, status |-> "FAILED"])]

RECURSIVE BatchLoop(_, _, _, _)
BatchLoop(q, i, st, oks) ==
    IF i > Len(q) THEN st
    ELSE BatchLoop(q, i + 1, ProcessPkg(q[i], st, oks[i]), oks)

\* queue_decision(pkg); max bounds the length of the queue in the model.
QueueDecision_NoCheck(p, max) ==
    /\ Len(queue) < max
    /\ queue' = Append(queue, p)
    /\ ret' = [op |-> "queue_decision", pkg |-> p,
               result |-> IF PkgHash(p) \in executed_hashes THEN "replay" ELSE "queued"]
    /\ UNCHANGED <<history, executed_hashes, status, ledger_entries>>

QueueDecision(p, max) ==
    /\ IF PkgHash(p) \in executed_hashes
       THEN /\ ret' = [op |-> "queue_decision", pkg |-> p, result |-> "replay"]
            /\ UNCHANGED queue
       ELSE /\ Len(queue) < max
            /\ queue' = Append(queue, p)
            /\ ret' = [op |-> "queue_decision", pkg |-> p, result |-> "queued"]
    /\ UNCHANGED <<history, executed_hashes, status, ledger_entries>>

\* execute_batch(): the whole loop and the clearing of the queue.
ExecuteBatch ==
    \E oks \in [1..Len(queue) -> BOOLEAN] :
        LET st == BatchLoop(queue, 1, BatchState, oks) IN
        /\ Len(st.history) <= MaxHistory
        /\ executed_hashes' = st.executed
        /\ history' = st.history
        /\ status' = st.status
        /\ ledger_entries' = st.ledger
        /\ queue' = <<>>
        /\ ret' = [op |-> "execute_batch", batch |-> queue, result |-> st.results]

\* ------------------------------------------------------------------------
\* The Auctobot under concurrent request threads: execute_batch runs as the
\* steps between which another thread can run (the executed-hash test, the
\* ledger call, the marking, the rebinding of self.queue).
\* ------------------------------------------------------------------------
Threads == {"t1", "t2"}

\* The packages queued while threads run.
ConcPkgs == {"p1", "p2"}

\* The list object a thread's for-loop iterates: self.queue as long as nobody
\* has rebound it, the old list afterwards.
TList(t) == IF tshared[t] THEN queue ELSE tlist[t]

ThreadIdle(t) ==
    /\ tpc' = [tpc EXCEPT ![t] = "idle"]
    /\ tidx' = [tidx EXCEPT ![t] = 0]
    /\ tres' = [tres EXCEPT ![t] = <<>>]
    /\ tpkg' = [tpkg EXCEPT ![t] = None]

\* execute_batch, line 67-68: results = [] and the iterator over self.queue
EBStart(t) ==
    /\ tpc[t] = "idle"
    /\ tpc' = [tpc EXCEPT ![t] = "iter"]
    /\ tidx' = [tidx EXCEPT ![t] = 1]
    /\ tshared' = [tshared EXCEPT ![t] = TRUE]
    /\ tlist' = [tlist EXCEPT ![t] = <<>>]
    /\ tres' = [tres EXCEPT ![t] = <<>>]
    /\ UNCHANGED <<tpkg, agencyVars, ret>>

\* execute_batch, line 68-74: the next package and the idempotency check
EBCheck(t) ==
    /\ tpc[t] = "iter"
    /\ IF tidx[t] > Len(TList(t))
       THEN /\ tpc' = [tpc EXCEPT ![t] = "clear"]
            /\ UNCHANGED <<tidx, tres, tpkg, status>>
       ELSE LET p == TList(t)[tidx[t]] IN
            IF PkgHash(p) \in executed_hashes
            THEN /\ status' = [status EXCEPT ![p] = "SKIPPED"]
                 /\ tres' = [tres EXCEPT ![t] = Append(@, [id |-> p, status |-> "SKIPPED"])]
                 /\ tidx' = [tidx EXCEPT ![t] = @ + 1]
                 /\ UNCHANGED <<tpc, tpkg>>
            ELSE /\ tpc' = [tpc EXCEPT ![t] = "dispatch"]
                 /\ tpkg' = [tpkg EXCEPT ![t] = p]
                 /\ UNCHANGED <<tidx, tres, status>>
    /\ UNCHANGED <<tshared, tlist, queue, history, executed_hashes, ledger_entries, ret>>

\* execute_batch, line 77-96 and 104-108: the dispatch to the ledger, which
\* returns or raises; an unknown action raises.
EBDispatch(t) ==
    /\ tpc[t] = "dispatch"
    /\ Len(history) < MaxConcHistory
    /\ LET p == tpkg[t] IN
       \E ledger_ok \in BOOLEAN :
          IF DispatchAccount(p) # None /\ ledger_ok
          THEN /\ ledger_entries' = RecordTransaction(ledger_entries, p, DispatchAccount(p))
               /\ tpc' = [tpc EXCEPT ![t] = "mark"]
               /\ UNCHANGED <<status, history, tres, tidx, tpkg>>
          ELSE /\ status' = [status EXCEPT ![p] = "FAILED"]
               /\ history' = Append(history, p)
               /\ tres' = [tres EXCEPT ![t] = Append(@, [id |-> p, status |-> "FAILED"])]
               /\ tidx' = [tidx EXCEPT ![t] = @ + 1]
               /\ tpc' = [tpc EXCEPT ![t] = "iter"]
               /\ tpkg' = [tpkg EXCEPT ![t] = None]
               /\ UNCHANGED ledger_entries
    /\ UNCHANGED <<tshared, tlist, queue, executed_hashes, ret>>

\* execute_batch, line 98-102: mark as executed
EBMark(t) ==
    /\ tpc[t] = "mark"
    /\ LET p == tpkg[t] IN
       /\ status' = [status EXCEPT ![p] = "EXECUTED"]
       /\ executed_hashes' = executed_hashes \cup {PkgHash(p)}
       /\ history' = Append(history, p)
       /\ tres' = [tres EXCEPT ![t] = Append(@, [id |-> p, status |-> "SUCCESS"])]
    /\ tidx' = [tidx EXCEPT ![t] = @ + 1]
    /\ tpc' = [tpc EXCEPT ![t] = "iter"]
    /\ tpkg' = [tpkg EXCEPT ![t] = None]
    /\ UNCHANGED <<tshared, tlist, queue, ledger_entries, ret>>

\* execute_batch, line 110-115: self.queue = [] and the return.  A thread still
\* iterating keeps the list object it started on.
EBClear(t) ==
    /\ tpc[t] = "clear"
    /\ queue' = <<>>
    /\ tlist' = [u \in Threads |->
                    IF u # t /\ tpc[u] # "idle" /\ tshared[u] THEN queue
                    ELSE IF u = t THEN <<>> ELSE tlist[u]]
    /\ tshared' = [u \in Threads |-> IF u = t THEN TRUE
                                     ELSE IF tpc[u] # "idle" THEN FALSE ELSE tshared[u]]
    /\ ret' = [op |-> "execute_batch", thread |-> t, result |-> tres[t]]
    /\ ThreadIdle(t)
    /\ UNCHANGED <<history, executed_hashes, status, ledger_entries>>

\* ------------------------------------------------------------------------
\* Debate tickets (src/backend/core/debate.py)
\* ------------------------------------------------------------------------
\* The values of  f"TKT-{uuid.uuid4().hex[:8].upper()}"
TicketIds == {"TKT-0000000A", "TKT-0000000B"}

IssueTypes == {"REPLENISHMENT", "PRICING"}

\* action_map.get(issue_type, "REPLENISH")
ActionOfIssue(issue_type) ==
    IF issue_type = "PRICING" THEN <<"PRICE_CHANGE">> ELSE <<"REPLENISH">>

TicketRows(ticket_id) == {r \in debate_tickets : r.ticket_id = ticket_id}

\* create_ticket(node_id, issue_type, value, threshold, reason); ticket_id is
\* the id uuid4 gave the call, and the primary key of the table.
CreateTicket(ticket_id, issue_type, store_ok) ==
    /\ IF store_ok /\ TicketRows(ticket_id) = {}
       THEN /\ debate_tickets' = debate_tickets \cup
                  {[ticket_id |-> ticket_id, node_id |-> <<"SKU", "1">>,
                    issue_type |-> issue_type, value |-> <<"5">>, threshold |-> <<"3">>,
                    status |-> "ACTIVE", resolution_verdict |-> None, pkg_id |-> None]}
            /\ ret' = [op |-> "create_ticket", result |-> "created", ticket_id |-> ticket_id]
       ELSE /\ ret' = [op |-> "create_ticket", result |-> "error", ticket_id |-> ticket_id]
            /\ UNCHANGED debate_tickets
    /\ UNCHANGED <<agencyVars, approvals>>

\* The order in which the package objects of one action are constructed
TicketPkgOrder(p) == IF p \in {"kR1", "kP1"} THEN 1 ELSE 2

\* The package DecisionPackage(action, node_id, value, reason) gives: the
\* first object of that action, node and value that no earlier call was given
PkgsBuilt == {queue[i] : i \in 1..Len(queue)} \cup {history[i] : i \in 1..Len(history)}

NewPkgs(ticket) ==
    {p \in TicketPkgs \ PkgsBuilt :
        /\ PkgFields(p).action = ActionOfIssue(ticket.issue_type)
        /\ PkgFields(p).target_id = ticket.node_id
        /\ PkgFields(p).quantity = ticket.value
        /\ \A q \in TicketPkgs \ PkgsBuilt :
              PkgFields(q).action = PkgFields(p).action =>
                 TicketPkgOrder(p) <= TicketPkgOrder(q)}

\* resolve_ticket(ticket_id, approved).  store is "ok", "down" (the SELECT
\* raises) or "update_fails" (the UPDATE raises).
ResolveTicket(ticket_id, approved, store) ==
    LET call == [op |-> "resolve_ticket", ticket_id |-> ticket_id, approved |-> approved]
    IN
    IF store = "down"
    THEN /\ ret' = [result |-> "error", pkg_id |-> None] @@ call
         /\ UNCHANGED <<agencyVars, debateVars>>
    ELSE IF TicketRows(ticket_id) = {}
    THEN /\ ret' = [result |-> "Ticket not found", pkg_id |-> None] @@ call
         /\ UNCHANGED <<agencyVars, debateVars>>
    ELSE \E ticket \in TicketRows(ticket_id) :
         \E p \in IF approved THEN NewPkgs(ticket) ELSE {None} :
            /\ IF approved /\ PkgHash(p) \notin executed_hashes
               THEN /\ Len(queue) < MaxDebateQueue
                    /\ Len(queue) + Len(history) < MaxDebatePkgs
                    /\ queue' = Append(queue, p)
               ELSE UNCHANGED queue
            /\ IF store = "update_fails"
               THEN /\ ret' = [result |-> "error", pkg_id |-> None] @@ call
                    /\ UNCHANGED debate_tickets
               ELSE /\ debate_tickets' = (debate_tickets \ {ticket}) \cup
                          {[ticket EXCEPT !.status = "RESOLVED",
                                          !.resolution_verdict =
                                              IF approved THEN "APPROVED" ELSE "REJECTED",
                                          !.pkg_id = p]}
                    /\ ret' = [result |-> "resolved", pkg_id |-> p] @@ call
            /\ UNCHANGED <<history, executed_hashes, status, ledger_entries, approvals>>

\* ------------------------------------------------------------------------
\* Schema registry and system lock (src/backend/core/domain_model.py, dna.py)
\* ------------------------------------------------------------------------

\* dna.py: the mandatory anchors of every entity type of the constitution
RETAIL_STANDARDS ==
    [PRODUCT |-> {"ANCHOR_PRODUCT_ID", "ANCHOR_PRODUCT_NAME"},
     INVENTORY |-> {"ANCHOR_PRODUCT_ID", "ANCHOR_STOCK_ON_HAND", "ANCHOR_DATE"},
     PRICING |-> {"ANCHOR_PRODUCT_ID", "ANCHOR_RETAIL_PRICE", "ANCHOR_DATE"},
     TRANSACTION |-> {"ANCHOR_PRODUCT_ID", "ANCHOR_SALES_QTY", "ANCHOR_DATE"},
     EXTERNAL_SIGNAL |-> {"ANCHOR_DATE", "ANCHOR_SIGNAL_TYPE", "ANCHOR_VALUE"}]

\* The entity types callers register: two of the constitution, one outside it.
EntityTypes == {"PRODUCT", "TRANSACTION", "SUPPLIER"}

\* The field definitions callers pass to register_schema.  A field definition
\* names its column as 'name' or 'source_column_name' and its anchor as
\* 'generic_anchor' or 'generic_column_name'; a key that is absent is None.
FieldDef(name, source_column_name, generic_anchor, generic_column_name) ==
    [name |-> name, source_column_name |-> source_column_name,
     generic_anchor |-> generic_anchor, generic_column_name |-> generic_column_name]

FieldDefs ==
    { FieldDef("sku", None, "ANCHOR_PRODUCT_ID", None),
      FieldDef("display_name", None, "ANCHOR_PRODUCT_NAME", None),
      FieldDef("mrp", None, None, None),
      FieldDef(None, "title", None, "ANCHOR_PRODUCT_NAME"),
      FieldDef("label", None, "ANCHOR_PRODUCT_NAME", "CUSTOM_LABEL") }

\* Python's  a or b  on values of which None is the falsy one
PyOr(a, b) == IF a # None THEN a ELSE b

\* is_system_locked()
IsSystemLocked == system_config = "TRUE"

\* register_schema, line 100-107: the mandatory anchors the rows do not provide
MissingAnchors(entity_type, rows) ==
    RETAIL_STANDARDS[entity_type]
        \ {r.generic_anchor : r \in {x \in rows : x.generic_anchor # None}}

\* register_schema, line 127-137 and 149-159: the row stored for a field definition
StoredRow(entity_type, r) ==
    [entity_type |-> entity_type,
     source_column_name |-> PyOr(r.source_column_name, r.name),
     generic_anchor |-> PyOr(r.generic_column_name, r.generic_anchor)]

RowsOf(entity_type) == {x \in schema_registry : x.entity_type = entity_type}

\* lock_system()
LockSystem ==
    /\ system_config' = "TRUE"
    /\ ret' = [op |-> "lock_system"]
    /\ UNCHANGED schema_registry

\* register_schema(entity_type, rows)
RegisterSchema_NoAbstention(entity_type, rows) ==
    /\ IF IsSystemLocked
       THEN /\ ret' = [op |-> "register_schema", entity_type |-> entity_type,
                       rows |-> rows, result |-> "PermissionError"]
            /\ UNCHANGED schema_registry
       ELSE /\ schema_registry' = (schema_registry \ RowsOf(entity_type))
                                    \cup {StoredRow(entity_type, r) : r \in rows}
            /\ ret' = [op |-> "register_schema", entity_type |-> entity_type,
                       rows |-> rows, result |-> "ok"]
    /\ UNCHANGED system_config

RegisterSchema_KeepOld(entity_type, rows) ==
    /\ IF IsSystemLocked
       THEN /\ ret' = [op |-> "register_schema", entity_type |-> entity_type,
                       rows |-> rows, result |-> "PermissionError"]
            /\ UNCHANGED schema_registry
       ELSE IF /\ entity_type \in DOMAIN RETAIL_STANDARDS
               /\ MissingAnchors(entity_type, rows) # {}
       THEN /\ ret' = [op |-> "register_schema", entity_type |-> entity_type,
                       rows |-> rows, result |-> "ValueError"]
            /\ UNCHANGED schema_registry
       ELSE /\ schema_registry' = schema_registry
                                    \cup {StoredRow(entity_type, r) : r \in rows}
            /\ ret' = [op |-> "register_schema", entity_type |-> entity_type,
                       rows |-> rows, result |-> "ok"]
    /\ UNCHANGED system_config

RegisterSchema(entity_type, rows) ==
    /\ IF IsSystemLocked
       THEN /\ ret' = [op |-> "register_schema", entity_type |-> entity_type,
                       rows |-> rows, result |-> "PermissionError"]
            /\ UNCHANGED schema_registry
       ELSE IF /\ entity_type \in DOMAIN RETAIL_STANDARDS
               /\ MissingAnchors(entity_type, rows) # {}
       THEN /\ ret' = [op |-> "register_schema", entity_type |-> entity_type,
                       rows |-> rows, result |-> "ValueError"]
            /\ UNCHANGED schema_registry
       ELSE /\ schema_registry' = (schema_registry \ RowsOf(entity_type))
                                    \cup {StoredRow(entity_type, r) : r \in rows}
            /\ ret' = [op |-> "register_schema", entity_type |-> entity_type,
                       rows |-> rows, result |-> "ok"]
    /\ UNCHANGED system_config

\* The ways the backing store fails a call: sqlite3.connect raises, or the
\* connection is made and the statement raises.
Stores == {"ok", "connect_fails", "execute_fails"}

\* lock_system() on a store that may fail: get_db_connection is outside the
\* try, the statement inside it, and the except clause only logs.
LockSystemOn(store) ==
    IF store = "ok" THEN LockSystem
    ELSE /\ ret' = [op |-> "lock_system", store |-> store,
                    result |-> IF store = "connect_fails" THEN "OperationalError"
                               ELSE "returned"]
         /\ UNCHANGED schemaVars

\* register_schema(entity_type, rows) on a store that may fail:
\* is_system_locked raises when the connection fails and answers False when
\* its SELECT fails; the except clause of the storage part raises again.
RegisterSchemaOn(entity_type, rows, store) ==
    IF store = "ok" THEN RegisterSchema(entity_type, rows)
    ELSE /\ ret' = [op |-> "register_schema", entity_type |-> entity_type, rows |-> rows,
                    store |-> store,
                    result |-> IF /\ store = "execute_fails"
                                  /\ entity_type \in DOMAIN RETAIL_STANDARDS
                                  /\ MissingAnchors(entity_type, rows) # {}
                               THEN "ValueError" ELSE "OperationalError"]
         /\ UNCHANGED schemaVars

\* The dicts get_anchor_map(entity_type) can return on a registry: one entry
\* for every anchor of the rows the SELECT gives; the SELECT has no ORDER BY,
\* so of two rows with one anchor either can come last and stay in the dict.
AnchorMaps(registry, entity_type) ==
    LET rows == {x \in registry : x.entity_type = entity_type /\ x.generic_anchor # None}
        anchors == {x.generic_anchor : x \in rows}
    IN  { m \in [anchors -> {x.source_column_name : x \in rows}] :
            \A a \in anchors :
               \E x \in rows : x.generic_anchor = a /\ x.source_column_name = m[a] }

\* get_anchor_map(entity_type)
GetAnchorMap(entity_type) ==
    /\ \E m \in AnchorMaps(schema_registry, entity_type) :
          ret' = [op |-> "get_anchor_map", entity_type |-> entity_type, result |-> m]
    /\ UNCHANGED schemaVars

\* DomainManager.delete_schema(entity_type)
DeleteSchema(entity_type) ==
    /\ schema_registry' = schema_registry \ RowsOf(entity_type)
    /\ ret' = [op |-> "delete_schema", entity_type |-> entity_type, result |-> "ok"]
    /\ UNCHANGED system_config

\* main.py, DELETE /ontology/schema/{entity_type}
DeleteSchemaEndpoint(entity_type) ==
    /\ IF IsSystemLocked
       THEN /\ ret' = [op |-> "DELETE /ontology/schema", entity_type |-> entity_type,
                       result |-> "HTTP 423"]
            /\ UNCHANGED schema_registry
       ELSE /\ schema_registry' = schema_registry \ RowsOf(entity_type)
            /\ ret' = [op |-> "DELETE /ontology/schema", entity_type |-> entity_type,
                       result |-> "success"]
    /\ UNCHANGED system_config

\* ------------------------------------------------------------------------
\* Schema requests in steps: the lock is read on one connection
\* (is_system_locked) and the registry is written on another
\* ------------------------------------------------------------------------

\* no schema request is between its lock check and its write
NoCall == [op |-> "none"]

\* register_schema up to the end of its validation (lines 91-111)
RegisterSchemaCheck(entity_type, rows) ==
    /\ schema_call = NoCall
    /\ IF IsSystemLocked
       THEN /\ ret' = [op |-> "register_schema", entity_type |-> entity_type,
                       rows |-> rows, result |-> "PermissionError"]
            /\ UNCHANGED schema_call
       ELSE IF /\ entity_type \in DOMAIN RETAIL_STANDARDS
               /\ MissingAnchors(entity_type, rows) # {}
       THEN /\ ret' = [op |-> "register_schema", entity_type |-> entity_type,
                       rows |-> rows, result |-> "ValueError"]
            /\ UNCHANGED schema_call
       ELSE /\ schema_call' = [op |-> "register_schema", entity_type |-> entity_type,
                               rows |-> rows]
            /\ ret' = [op |-> "is_system_locked", result |-> FALSE]
    /\ UNCHANGED schemaVars

\* register_schema from get_db_connection to commit (lines 113-169)
RegisterSchemaStore ==
    /\ schema_call.op = "register_schema"
    /\ schema_registry' = (schema_registry \ RowsOf(schema_call.entity_type))
                             \cup {StoredRow(schema_call.entity_type, r) :
                                      r \in schema_call.rows}
    /\ ret' = [op |-> "register_schema", entity_type |-> schema_call.entity_type,
               rows |-> schema_call.rows, result |-> "ok"]
    /\ schema_call' = NoCall
    /\ UNCHANGED system_config

\* DELETE /ontology/schema/{entity_type}: the lock check of the endpoint
DeleteSchemaCheck(entity_type) ==
    /\ schema_call = NoCall
    /\ IF IsSystemLocked
       THEN /\ ret' = [op |-> "DELETE /ontology/schema", entity_type |-> entity_type,
                       result |-> "HTTP 423"]
            /\ UNCHANGED schema_call
       ELSE /\ schema_call' = [op |-> "delete_schema", entity_type |-> entity_type,
                               rows |-> {}]
            /\ ret' = [op |-> "is_system_locked", result |-> FALSE]
    /\ UNCHANGED schemaVars

\* DELETE /ontology/schema/{entity_type}: the call of delete_schema
DeleteSchemaStore ==
    /\ schema_call.op = "delete_schema"
    /\ schema_registry' = schema_registry \ RowsOf(schema_call.entity_type)
    /\ ret' = [op |-> "DELETE /ontology/schema", entity_type |-> schema_call.entity_type,
               result |-> "success"]
    /\ schema_call' = NoCall
    /\ UNCHANGED system_config

\* ------------------------------------------------------------------------
\* Policy engine (src/auctorian/backend/core/policy_engine.py)
\* ------------------------------------------------------------------------

\* PolicyEngine.DEFAULTS
DEFAULTS ==
    [MAX_AUTO_SPEND |-> 5000, MIN_MARGIN_PCT |-> 20, MAX_PRICE_HIKE_PCT |-> 10,
     MAX_MARKDOWN_DEPTH |-> 40, SYSTEM_3_TRIGGER |-> 60]

\* self.DEFAULTS.get(key, 0.0)
DefaultOf(key) == IF key \in DOMAIN DEFAULTS THEN DEFAULTS[key] ELSE 0

\* The keys, entities and values callers use.
PolicyKeys == {"MAX_AUTO_SPEND", "MAX_MARKDOWN_DEPTH"}
PolicyEntities == {"GLOBAL", "SKU-1", "SKU-2"}
PolicyValues == {5, 10}

\* Two rows of governance_policies that cannot both be stored: the rows of one
\* (entity_id, policy_key) pair.
PolicyConflict(r1, r2) == r1.entity_id = r2.entity_id /\ r1.policy_key = r2.policy_key

\* SELECT policy_value ... WHERE policy_key=? AND entity_id=?
PolicyRows(key, entity_id) ==
    {r \in governance_policies : r.policy_key = key /\ r.entity_id = entity_id}

\* _fetch_policy(key, entity_id): the values it can return (fetchone() takes
\* any one of the rows selected)
FetchPolicy_GlobalFirst(key, entity_id) ==
    IF PolicyRows(key, "GLOBAL") # {}
    THEN {r.value : r \in PolicyRows(key, "GLOBAL")}
    ELSE IF entity_id # None /\ PolicyRows(key, entity_id) # {}
    THEN {r.value : r \in PolicyRows(key, entity_id)}
    ELSE {DefaultOf(key)}

FetchPolicy(key, entity_id) ==
    IF entity_id # None /\ PolicyRows(key, entity_id) # {}
    THEN {r.value : r \in PolicyRows(key, entity_id)}
    ELSE IF PolicyRows(key, "GLOBAL") # {}
    THEN {r.value : r \in PolicyRows(key, "GLOBAL")}
    ELSE {DefaultOf(key)}

\* A call of _fetch_policy
FetchPolicyCall(key, entity_id) ==
    /\ \E v \in FetchPolicy(key, entity_id) :
          ret' = [op |-> "fetch_policy", key |-> key, entity_id |-> entity_id,
                  result |-> v]
    /\ UNCHANGED governance_policies

\* set_policy on a table keyed by policy_key alone
SetPolicy_KeyOnly(key, value, entity_id) ==
    LET row == [entity_id |-> entity_id, policy_key |-> key, value |-> value] IN
    /\ governance_policies' =
          {r \in governance_policies : r.policy_key # key} \cup {row}
    /\ ret' = [op |-> "set_policy", key |-> key, entity_id |-> entity_id,
               value |-> value]

\* set_policy(key, value, entity_id): INSERT OR REPLACE
SetPolicy(key, value, entity_id) ==
    LET row == [entity_id |-> entity_id, policy_key |-> key, value |-> value] IN
    /\ governance_policies' =
          {r \in governance_policies : ~PolicyConflict(r, row)} \cup {row}
    /\ ret' = [op |-> "set_policy", key |-> key, entity_id |-> entity_id,
               value |-> value]

\* ------------------------------------------------------------------------
\* validate_action (src/auctorian/backend/core/policy_engine.py)
\* ------------------------------------------------------------------------
\* The context argument: None, or a dict with some of the keys 'cost' and
\* 'current_price'
NoContext == [none |-> TRUE]

EmptyContext == [k \in {} |-> 0]

HasKey(context, k) == context # NoContext /\ k \in DOMAIN context

\* `if context`: a dict that is not empty
Truthy(context) == context # NoContext /\ DOMAIN context # {}

RECURSIVE Gcd(_, _)
Gcd(a, b) == IF b = 0 THEN a ELSE Gcd(b, a % b)

Abs(n) == IF n < 0 THEN 0 - n ELSE n

RECURSIVE IsPowerOfTwo(_)
IsPowerOfTwo(n) == n = 1 \/ (n > 1 /\ n % 2 = 0 /\ IsPowerOfTwo(n \div 2))

\* ((value - old_price) / old_price) * 100 in double arithmetic, old_price > 0:
\* the exact percentage as the fraction num/den, and how the result stands to
\* it.  A quotient with a finite binary expansion is exact; any other is
\* rounded to a neighbouring double, so the product can come out below, at or
\* above the exact percentage.
PctChanges(value, old_price) ==
    LET n == value - old_price
        g == Gcd(Abs(n), old_price)
        exact == n = 0 \/ IsPowerOfTwo(old_price \div g)
    IN  {[num |-> n * 100, den |-> old_price, off |-> o] :
            o \in IF exact THEN {0} ELSE {0 - 1, 0, 1}}

\* pct_change > max_hike
PctExceeds(pct, max_hike) ==
    \/ pct.num > max_hike * pct.den
    \/ pct.num = max_hike * pct.den /\ pct.off = 1

\* The rule the if/elif chain of validate_action applies to an action type
RuleOf_TransferAsOrder(action_type) ==
    IF action_type \in {"ORDER", "TRANSFER"} THEN "ORDER"
    ELSE IF action_type \in {"HIKE", "MARKDOWN"} THEN action_type
    ELSE "NONE"

RuleOf(action_type) ==
    IF action_type \in {"ORDER", "HIKE", "MARKDOWN"} THEN action_type ELSE "NONE"

\* The cost of an order: value * 50.0, or context['cost'] if the context is a
\* dict that is not empty and has the key
OrderCost_IgnoreContext(value, context) == value * 50

OrderCost(value, context) ==
    IF Truthy(context) /\ HasKey(context, "cost") THEN context.cost ELSE value * 50

\* value > max_depth
MarkdownTooDeep_OrEqual(value, max_depth) == value >= max_depth

MarkdownTooDeep(value, max_depth) == value > max_depth

\* validate_action(action_type, value, entity_id, context), a call.  store_ok
\* tells whether the policy store can be read; _fetch_policy raises if not.
ValidateAction(action_type, value, entity_id, context, store_ok) ==
    LET call == [op |-> "validate_action", action_type |-> action_type, value |-> value,
                 entity_id |-> entity_id, context |-> context, store_ok |-> store_ok]
        Approved == [outcome |-> "approved", reason |-> [text |-> "Approved"]] @@ call
        Raised(e) == [outcome |-> e, reason |-> [text |-> e]] @@ call
    IN
    /\ IF RuleOf(action_type) = "ORDER"
       THEN IF ~store_ok THEN ret' = Raised("OperationalError")
            ELSE \E limit \in FetchPolicy("MAX_AUTO_SPEND", entity_id) :
                    LET cost == OrderCost(value, context)
                    IN  ret' = IF cost > limit
                               THEN [outcome |-> "rejected",
                                     reason |-> [text |-> "exceeds Auto-Limit",
                                                 cost |-> cost, limit |-> limit]] @@ call
                               ELSE Approved
       ELSE IF RuleOf(action_type) = "HIKE"
       THEN IF context = NoContext THEN ret' = Raised("AttributeError")
            ELSE LET old_price == IF HasKey(context, "current_price")
                                  THEN context.current_price ELSE value
                 IN  IF old_price > 0
                     THEN IF ~store_ok THEN ret' = Raised("OperationalError")
                          ELSE \E pct \in PctChanges(value, old_price),
                                  max_hike \in FetchPolicy("MAX_PRICE_HIKE_PCT", entity_id) :
                                  ret' = IF PctExceeds(pct, max_hike)
                                         THEN [outcome |-> "rejected",
                                               reason |-> [text |-> "exceeds safety cap",
                                                           max_hike |-> max_hike]] @@ call
                                         ELSE Approved
                     ELSE ret' = Approved
       ELSE IF RuleOf(action_type) = "MARKDOWN"
       THEN IF ~store_ok THEN ret' = Raised("OperationalError")
            ELSE \E max_depth \in FetchPolicy("MAX_MARKDOWN_DEPTH", entity_id) :
                    ret' = IF MarkdownTooDeep(value, max_depth)
                           THEN [outcome |-> "rejected",
                                 reason |-> [text |-> "exceeds max depth",
                                             value |-> value, max_depth |-> max_depth]] @@ call
                           ELSE Approved
       ELSE ret' = Approved
    /\ UNCHANGED governance_policies

\* The limits set, the entities they are set for, and the calls made when
\* validate_action is exercised
ValidateKeys == {"MAX_AUTO_SPEND", "MAX_PRICE_HIKE_PCT", "MAX_MARKDOWN_DEPTH"}

ValidateLimits == {7, 50}

ValidateSetEntities == {"GLOBAL", "SKU-1"}

ValidateEntities == {"SKU-1", "SKU-2"}

ValidateCalls ==
    { [action_type |-> "MARKDOWN", value |-> 45, context |-> NoContext],
      [action_type |-> "MARKDOWN", value |-> 40, context |-> EmptyContext],
      [action_type |-> "MARKDOWN", value |-> 7, context |-> NoContext],
      [action_type |-> "MARKDOWN", value |-> 8, context |-> NoContext],
      [action_type |-> "ORDER", value |-> 100, context |-> NoContext],
      [action_type |-> "ORDER", value |-> 101, context |-> EmptyContext],
      [action_type |-> "ORDER", value |-> 1, context |-> [current_price |-> 9]],
      [action_type |-> "ORDER", value |-> 1, context |-> [cost |-> 51]],
      [action_type |-> "ORDER", value |-> 101, context |-> [cost |-> 0]],
      [action_type |-> "HIKE", value |-> 107, context |-> [current_price |-> 100]],
      [action_type |-> "HIKE", value |-> 150, context |-> [current_price |-> 100]],
      [action_type |-> "HIKE", value |-> 120, context |-> [current_price |-> 100]],
      [action_type |-> "HIKE", value |-> 90, context |-> [current_price |-> 100]],
      [action_type |-> "HIKE", value |-> 500, context |-> [current_price |-> 0]],
      [action_type |-> "HIKE", value |-> 500, context |-> EmptyContext],
      [action_type |-> "HIKE", value |-> 500, context |-> NoContext],
      [action_type |-> "TRANSFER", value |-> 100000, context |-> NoContext],
      [action_type |-> "REPLENISH", value |-> 100000, context |-> [cost |-> 100000]] }

\* ------------------------------------------------------------------------
\* Ledger (src/auctorian/backend/core/ledger.py)
\* ------------------------------------------------------------------------
MaxLedger == 3
MaxClock == 2
MaxLimit == 2

\* The decision payloads callers log; the second has no 'system_level' key.
LedgerPayloads ==
    { [node_id |-> "SKU-1", decision |-> "ORDER", system_level |-> 1],
      [node_id |-> "SKU-2", decision |-> "MARKDOWN"] }

\* The values of  f"TX-{uuid.uuid4().hex[:8].upper()}"
TxIds == {"TX-0000000A", "TX-0000000B", "TX-0000000C"}

LedgerRow(payload, mechanism, tx_id) ==
    [tx_id |-> tx_id, timestamp |-> clock, node_id |-> payload.node_id,
     decision |-> payload.decision,
     system_level |-> IF "system_level" \in DOMAIN payload
                      THEN payload.system_level ELSE 2,
     status |-> "COMMITTED", mechanism |-> mechanism]

\* log_execution(decision_payload, mechanism).  tx_id is the id uuid4 gave this
\* call: 32 random bits, not compared with the ids already in the table.
\* store_ok tells whether the INSERT goes through; any exception is caught and
\* None returned.
LogExecution(payload, mechanism, tx_id, store_ok) ==
    /\ Len(claims_ledger) < MaxLedger
    /\ IF store_ok
       THEN /\ claims_ledger' = Append(claims_ledger, LedgerRow(payload, mechanism, tx_id))
            /\ ret' = [op |-> "log_execution", result |-> tx_id, store_ok |-> store_ok]
       ELSE /\ ret' = [op |-> "log_execution", result |-> None, store_ok |-> store_ok]
            /\ UNCHANGED claims_ledger
    /\ UNCHANGED clock

\* SELECT * FROM claims_ledger ORDER BY timestamp DESC: the orders the rows can
\* come in (rows of one timestamp come in any order)
OrderedByTimestampDesc ==
    LET n == Len(claims_ledger) IN
    { f \in [1..n -> 1..n] :
        /\ \A i, j \in 1..n : i # j => f[i] # f[j]
        /\ \A i, j \in 1..n :
              i < j => claims_ledger[f[i]].timestamp >= claims_ledger[f[j]].timestamp }

Min(a, b) == IF a < b THEN a ELSE b

\* get_recent_logs(limit)
GetRecentLogs(limit, store_ok) ==
    /\ IF store_ok
       THEN \E f \in OrderedByTimestampDesc :
               ret' = [op |-> "get_recent_logs", limit |-> limit, store_ok |-> TRUE,
                       result |-> [i \in 1..Min(limit, Len(claims_ledger)) |->
                                      claims_ledger[f[i]]]]
       ELSE ret' = [op |-> "get_recent_logs", limit |-> limit, store_ok |-> FALSE,
                    result |-> <<>>]
    /\ UNCHANGED <<claims_ledger, clock>>

\* The wall clock moves to the next second.
Tick ==
    /\ clock < MaxClock
    /\ clock' = clock + 1
    /\ ret' = [op |-> "tick"]
    /\ UNCHANGED claims_ledger

\* ------------------------------------------------------------------------
\* Event ingestion: values of a file and their conversions
\* (src/auctorian/backend/core/ingestion.py, src/backend/core/ingestion.py)
\* ------------------------------------------------------------------------
MaxEvents == 3

\* A text is a sequence of pieces; a blank is the piece " ".  str.strip():
RECURSIVE LStrip(_)
LStrip(s) == IF s # <<>> /\ Head(s) = " " THEN LStrip(Tail(s)) ELSE s

RECURSIVE RStrip(_)
RStrip(s) == IF s # <<>> /\ s[Len(s)] = " " THEN RStrip(SubSeq(s, 1, Len(s) - 1)) ELSE s

Strip(s) == RStrip(LStrip(s))

\* None, where the other values are records
NoValue == [none |-> TRUE]

\* A number is the decimal m * 10^(-e), e the count of digits after the point.
Zero == [m |-> 0, e |-> 0]

Digits == {"0", "1", "2", "3", "4", "5", "6", "7", "8", "9"}

DigitVal(ch) ==
    CASE ch = "0" -> 0 [] ch = "1" -> 1 [] ch = "2" -> 2 [] ch = "3" -> 3
      [] ch = "4" -> 4 [] ch = "5" -> 5 [] ch = "6" -> 6 [] ch = "7" -> 7
      [] ch = "8" -> 8 [] ch = "9" -> 9

RECURSIVE DigitsToInt(_)
DigitsToInt(ds) ==
    IF ds = <<>> THEN 0
    ELSE 10 * DigitsToInt(SubSeq(ds, 1, Len(ds) - 1)) + DigitVal(ds[Len(ds)])

RECURSIVE StripZeros(_)
StripZeros(ds) ==
    IF ds # <<>> /\ ds[Len(ds)] = "0" THEN StripZeros(SubSeq(ds, 1, Len(ds) - 1)) ELSE ds

\* float(text) of a text of digits, "." and "-": NoValue for a ValueError
ParseFloat(c) ==
    LET neg   == c # <<>> /\ c[1] = "-"
        body  == IF neg THEN Tail(c) ELSE c
        dots  == {i \in 1..Len(body) : body[i] = "."}
        valid == /\ \A i \in 1..Len(body) : body[i] # "-"
                 /\ Cardinality(dots) <= 1
                 /\ \E i \in 1..Len(body) : body[i] \in Digits
        d     == IF dots = {} THEN Len(body) + 1 ELSE CHOOSE i \in dots : TRUE
        whole == SubSeq(body, 1, d - 1)
        frac  == StripZeros(SubSeq(body, d + 1, Len(body)))
        m     == DigitsToInt(whole \o frac)
    IN  IF valid THEN [m |-> IF neg THEN 0 - m ELSE m, e |-> Len(frac)] ELSE NoValue

\* _clean_number(val): re.sub(r'[^\d.-]', '', str(val)), then float or 0.0
CleanNumber(val) ==
    IF val = <<>> THEN Zero
    ELSE LET clean_val == SelectSeq(val, LAMBDA ch : ch \in Digits \cup {".", "-"})
         IN  IF ParseFloat(clean_val) = NoValue THEN Zero ELSE ParseFloat(clean_val)

\* A date text is three numbers a, b, c written with one separator between
\* them; sep = "" is the empty text and sep = "?" a text that is no date.
DateText(sep, a, b, c) == [sep |-> sep, a |-> a, b |-> b, c |-> c]

IsYear(n) == n >= 1000 /\ n <= 9999

DaysIn(y, m) ==
    IF m \in {4, 6, 9, 11} THEN 30
    ELSE IF m = 2 THEN (IF y % 4 = 0 /\ (y % 100 # 0 \/ y % 400 = 0) THEN 29 ELSE 28)
    ELSE 31

\* datetime.strptime accepts year y, month m, day d
ValidDate(y, m, d) == IsYear(y) /\ m \in 1..12 /\ d >= 1 /\ d <= DaysIn(y, m)

Iso(y, m, d) == [y |-> y, m |-> m, d |-> d]

\* _standardize_date of the file engine: the first format of the list that
\* parses the text gives the date, written as %Y-%m-%d; NoValue if none does.
StandardizeDate(val) ==
    IF val.sep = "" THEN NoValue
    ELSE IF val.sep = "-" /\ ValidDate(val.a, val.b, val.c) THEN Iso(val.a, val.b, val.c)
    ELSE IF val.sep = "/" /\ ValidDate(val.c, val.a, val.b) THEN Iso(val.c, val.a, val.b)
    ELSE IF val.sep = "/" /\ ValidDate(val.c, val.b, val.a) THEN Iso(val.c, val.b, val.a)
    ELSE IF val.sep = "/" /\ ValidDate(val.a, val.b, val.c) THEN Iso(val.a, val.b, val.c)
    ELSE IF val.sep = "-" /\ ValidDate(val.c, val.b, val.a) THEN Iso(val.c, val.b, val.a)
    ELSE IF val.sep = "." /\ ValidDate(val.a, val.b, val.c) THEN Iso(val.a, val.b, val.c)
    ELSE IF val.sep = "." /\ ValidDate(val.c, val.b, val.a) THEN Iso(val.c, val.b, val.a)
    ELSE NoValue

\* _standardize_date of the stream engine: pd.to_datetime(val) written as
\* %Y-%m-%d (year first, else month first, else day first), and the text
\* itself when pandas raises.
BackendStandardizeDate(val) ==
    IF val.sep = "" THEN NoValue
    ELSE IF val.sep \in {"-", "/", "."} /\ ValidDate(val.a, val.b, val.c)
         THEN Iso(val.a, val.b, val.c)
    ELSE IF val.sep \in {"-", "/", "."} /\ ValidDate(val.c, val.a, val.b)
         THEN Iso(val.c, val.a, val.b)
    ELSE IF val.sep \in {"-", "/", "."} /\ ValidDate(val.c, val.b, val.a)
         THEN Iso(val.c, val.b, val.a)
    ELSE [raw |-> val]

\* ------------------------------------------------------------------------
\* Event ingestion: the rows of a file and the two engines
\* ------------------------------------------------------------------------
\* The columns of the files, in the order of the header line
FileHeaders == <<"SKU", "Date", "Qty", "Store">>

FileRow(sku, date, qty, store) == [SKU |-> sku, Date |-> date, Qty |-> qty, Store |-> store]

RowA == FileRow(<<"ABC123">>, DateText("-", 2024, 1, 5), <<"1", "0">>, <<>>)

RowB == FileRow(<<"ABC123">>, DateText("-", 2024, 1, 5), <<"1", "2">>, <<>>)

RowC == FileRow(<<"ABC123", " ">>, DateText("/", 1, 5, 2024),
                <<"$", "1", "2", ".", "5", "0">>, <<"S1">>)

RowD == FileRow(<<"ABC123">>, DateText("/", 13, 5, 2024), <<"1", "-", "2">>, <<" ">>)

RowE == FileRow(<<"ABC123">>, DateText("", 0, 0, 0), <<"7">>, <<>>)

RowF == FileRow(<<>>, DateText("?", 0, 0, 0), <<>>, <<>>)

\* The files given to the engines
EventFiles ==
    { <<>>, <<RowA>>, <<RowB>>, <<RowA, RowB>>, <<RowB, RowA, RowA>>,
      <<RowC, RowD>>, <<RowE, RowF>>, <<RowF>> }

EntityNames == {"SALES_QTY", "sales_qty"}

\* str.upper() of an entity name
Upper(name) ==
    CASE name = "sales_qty" -> "SALES_QTY"
      [] name = "product" -> "PRODUCT"
      [] name = "location" -> "LOCATION"
      [] OTHER -> name

GLOBAL == <<"GLOBAL">>

\* name.strip().lower().replace('_', '') of a column name
CleanName(name) ==
    CASE name \in {"SKU", "sku", "S_K_U"} -> "sku"
      [] name \in {"Date", "DATE"} -> "date"
      [] name \in {"Qty", "qty"} -> "qty"
      [] name \in {"Store", "store"} -> "store"
      [] name = "tx_date" -> "txdate"
      [] OTHER -> name

\* _match_header(row_keys, user_map_col)
MatchHeader(row_keys, user_map_col) ==
    IF user_map_col = None THEN None
    ELSE LET hits == {i \in 1..Len(row_keys) : CleanName(row_keys[i]) = CleanName(user_map_col)}
         IN  IF hits = {} THEN None
             ELSE row_keys[CHOOSE i \in hits : \A j \in hits : i <= j]

\* config['mapping'] of the file engine; a key that is absent is None
EventMappings ==
    { [Target_ID |-> "sku", Date |-> "DATE", Value |-> "qty", Location_ID |-> "store"],
      [Target_ID |-> "S_K_U", Date |-> "Date", Value |-> None, Location_ID |-> None],
      [Target_ID |-> "SKU", Date |-> "tx_date", Value |-> "Qty", Location_ID |-> None] }

\* The columns of universal_events in the schema of the file engine, and the
\* columns _flush_events names in its INSERT
EventColumns ==
    {"event_id", "primary_target_id", "event_type", "value", "timestamp", "meta"}

FlushColumns ==
    {"event_id", "event_type", "timestamp", "primary_target_id", "secondary_target_id",
     "value", "meta", "dedup_key"}

\* _generate_dedup_key(ev_type, target, loc, time_str): the md5 of the four
\* joined with "|", taken to be different for different texts
GenerateDedupKey(ev_type, target, loc, time_str) == <<ev_type, target, loc, time_str>>

\* INSERT OR REPLACE of one row: the row of the same event_id goes
InsertOrReplace(table, row) == {e \in table : e.event_id # row.event_id} \cup {row}

\* INSERT ... ON CONFLICT(event_id) DO NOTHING of one row
InsertOrIgnore(table, row) ==
    IF \E e \in table : e.event_id = row.event_id THEN table ELSE table \cup {row}

RECURSIVE InsertAll(_, _, _)
InsertAll(table, batch, replace) ==
    IF batch = <<>> THEN table
    ELSE InsertAll(IF replace THEN InsertOrReplace(table, Head(batch))
                   ELSE InsertOrIgnore(table, Head(batch)),
                   Tail(batch), replace)

\* ------------------------------------------------------------------------
\* The file engine (src/auctorian/backend/core/ingestion.py)
\* ------------------------------------------------------------------------
BATCH_SIZE == 2000

\* The body of the loop of _ingest_events for one row: NoValue when the row is
\* skipped (no target id or no date), else the tuple appended to the batch.
\* No statement of it raises for a row that has all its columns.
EventOfRow(row, headers, event_type) ==
    LET target_id == Strip(row[headers.target])
        date_str  == StandardizeDate(row[headers.date])
        val       == IF headers.val # None /\ row[headers.val] # <<>>
                     THEN CleanNumber(row[headers.val]) ELSE Zero
        loc_id    == IF headers.loc # None /\ row[headers.loc] # <<>>
                     THEN Strip(row[headers.loc]) ELSE GLOBAL
        core      == {headers.target, headers.date, headers.val, headers.loc}
        meta      == [k \in {FileHeaders[i] : i \in 1..Len(FileHeaders)} \ core |-> row[k]]
        dedup_key == GenerateDedupKey(event_type, target_id, loc_id, date_str)
    IN  IF target_id = <<>> \/ date_str = NoValue THEN NoValue
        ELSE [event_id |-> dedup_key, event_type |-> event_type, timestamp |-> date_str,
              primary_target_id |-> target_id, secondary_target_id |-> loc_id,
              value |-> val, meta |-> meta, dedup_key |-> dedup_key]

\* _flush_events(conn, batch): sqlite3.OperationalError when the INSERT names
\* a column the table does not have; else every row is written and committed.
FlushEvents(st) ==
    IF FlushColumns \subseteq EventColumns
    THEN [st EXCEPT !.table = InsertAll(st.table, st.batch, TRUE), !.batch = <<>>]
    ELSE [st EXCEPT !.raised = TRUE]

RECURSIVE EventLoop(_, _, _, _)
EventLoop(rows, headers, event_type, st) ==
    IF rows = <<>> \/ st.raised THEN st
    ELSE LET ev == EventOfRow(Head(rows), headers, event_type)
             s1 == IF ev = NoValue THEN st
                   ELSE [st EXCEPT !.batch = Append(st.batch, ev), !.count = st.count + 1]
             s2 == IF Len(s1.batch) >= BATCH_SIZE THEN FlushEvents(s1) ELSE s1
         IN  EventLoop(Tail(rows), headers, event_type, s2)

\* The test of the header the loops make on their first row
HeaderMissing(rows, cols) == rows # <<>> /\ None \in cols

\* _ingest_events(content, config) on a file of the rows `rows`
IngestEvents(rows, mapping, entity_name) ==
    LET event_type == Upper(entity_name)
        headers == [target |-> MatchHeader(FileHeaders, mapping.Target_ID),
                    date   |-> MatchHeader(FileHeaders, mapping.Date),
                    val    |-> MatchHeader(FileHeaders, mapping.Value),
                    loc    |-> MatchHeader(FileHeaders, mapping.Location_ID)]
        call == [op |-> "ingest_events", rows |-> rows, mapping |-> mapping,
                 entity_name |-> entity_name]
    IN  IF HeaderMissing(rows, {headers.target, headers.date})
        THEN /\ ret' = [status |-> "error", count |-> 0] @@ call
             /\ UNCHANGED <<objectVars, ingestVars>>
        ELSE LET s0 == [batch |-> <<>>, count |-> 0, table |-> universal_events,
                        raised |-> FALSE]
                 s1 == EventLoop(rows, headers, event_type, s0)
                 s2 == IF s1.batch # <<>> /\ ~s1.raised THEN FlushEvents(s1) ELSE s1
             IN  /\ Cardinality(s2.table) <= MaxEvents
                 /\ universal_events' = s2.table
                 /\ ret' = [status |-> IF s2.raised THEN "OperationalError" ELSE "success",
                            count |-> s2.count] @@ call
                 /\ UNCHANGED <<objectVars, backend_events>>

\* The files and mappings given to _ingest_objects; a key of the mapping that
\* is absent is None
RowG == FileRow(<<"XYZ9">>, DateText("-", 2024, 1, 5), <<"3">>, <<"S2", " ">>)

ObjectFiles == { <<>>, <<RowA>>, <<RowC, RowD>>, <<RowF, RowG>>, <<RowG, RowB>> }

ObjectMappings ==
    { [ID |-> "sku", Name |-> "store"],
      [ID |-> "S_K_U", Name |-> None],
      [ID |-> "code", Name |-> "store"],
      [ID |-> None, Name |-> None] }

\* The tuple _ingest_objects appends to the batch for one row, NoValue when
\* the row has no id.  attributes is the dict json.dumps is given: every
\* other column, stripped (a date text of the files has no blank to strip).
ObjectOfRow(row, key_col, name_col, obj_type) ==
    LET obj_id == Strip(row[key_col])
        others == {FileHeaders[i] : i \in 1..Len(FileHeaders)} \ {key_col}
        attributes == [k \in others |-> IF k = "Date" THEN row[k] ELSE Strip(row[k])]
        name == IF name_col # None /\ name_col # "Date" /\ row[name_col] # <<>>
                THEN Strip(row[name_col]) ELSE obj_id
    IN  IF obj_id = <<>> THEN NoValue
        ELSE [obj_id |-> obj_id, obj_type |-> obj_type, name |-> name,
              attributes |-> attributes]

\* INSERT OR REPLACE INTO universal_objects of one row (obj_id is the key)
ReplaceObject(table, row) == {o \in table : o.obj_id # row.obj_id} \cup {row}

RECURSIVE ReplaceObjects(_, _)
ReplaceObjects(table, batch) ==
    IF batch = <<>> THEN table
    ELSE ReplaceObjects(ReplaceObject(table, Head(batch)), Tail(batch))

RECURSIVE ObjectLoop(_, _, _, _, _)
ObjectLoop(rows, key_col, name_col, obj_type, st) ==
    IF rows = <<>> THEN st
    ELSE LET ob == ObjectOfRow(Head(rows), key_col, name_col, obj_type)
             s1 == IF ob = NoValue THEN st
                   ELSE [st EXCEPT !.batch = Append(st.batch, ob), !.count = st.count + 1]
             s2 == IF Len(s1.batch) >= BATCH_SIZE
                   THEN [s1 EXCEPT !.table = ReplaceObjects(s1.table, s1.batch),
                                   !.batch = <<>>]
                   ELSE s1
         IN  ObjectLoop(Tail(rows), key_col, name_col, obj_type, s2)

\* _ingest_objects(content, config) on a file of the rows `rows`
IngestObjects(rows, mapping, entity_name) ==
    LET obj_type == Upper(entity_name)
        key_col  == MatchHeader(FileHeaders, mapping.ID)
        name_col == MatchHeader(FileHeaders, mapping.Name)
        call == [op |-> "ingest_objects", rows |-> rows, mapping |-> mapping,
                 entity_name |-> entity_name]
    IN  IF HeaderMissing(rows, {key_col})
        THEN /\ ret' = [status |-> "error", count |-> 0] @@ call
             /\ UNCHANGED <<objectVars, ingestVars>>
        ELSE LET s0 == [batch |-> <<>>, count |-> 0, table |-> universal_objects]
                 s1 == IF rows = <<>> THEN s0
                       ELSE ObjectLoop(rows, key_col, name_col, obj_type, s0)
             IN  /\ universal_objects' = ReplaceObjects(s1.table, s1.batch)
                 /\ ret' = [status |-> "success", count |-> s1.count] @@ call
                 /\ UNCHANGED <<backend_objects, ingestVars>>

\* ------------------------------------------------------------------------
\* The stream engine (src/backend/core/ingestion.py), config type 'EVENT'
\* ------------------------------------------------------------------------
\* config['mapping']: target field -> source column
StreamMappings ==
    { [primary_target_id |-> "SKU", timestamp |-> "Date", value |-> "Qty"],
      [primary_target_id |-> "SKU", timestamp |-> "Date", value |-> "Quantity"] }

DbEngines == {"sqlite", "postgres"}

\* field in mapped_row, and mapped_row[field]
IsMapped(row, mapping, field) == mapping[field] \in DOMAIN row

MappedGet(row, mapping, field) == row[mapping[field]]

\* The events_batch of process_generic_stream; the i-th row that has no
\* timestamp gets datetime.now().isoformat(), different for every row.
RECURSIVE StreamBatch(_, _, _, _)
StreamBatch(data, mapping, entity_name, i) ==
    IF i > Len(data) THEN <<>>
    ELSE LET row       == data[i]
             target_id == IF IsMapped(row, mapping, "primary_target_id")
                          THEN MappedGet(row, mapping, "primary_target_id") ELSE <<>>
             val       == IF IsMapped(row, mapping, "value")
                          THEN CleanNumber(MappedGet(row, mapping, "value")) ELSE Zero
             std       == IF IsMapped(row, mapping, "timestamp")
                          THEN BackendStandardizeDate(MappedGet(row, mapping, "timestamp"))
                          ELSE NoValue
             ts        == IF std = NoValue THEN [now |-> clock, row |-> i] ELSE std
             evt_id    == GenerateDedupKey(entity_name, target_id, GLOBAL, ts)
             rest      == StreamBatch(data, mapping, entity_name, i + 1)
         IN  IF target_id # <<>>
             THEN <<[event_id |-> evt_id, primary_target_id |-> target_id,
                     event_type |-> entity_name, value |-> val, timestamp |-> ts,
                     meta |-> "ingestion_engine"]>> \o rest
             ELSE rest

\* process_generic_stream(data, config).  On PostgreSQL the primary key of
\* universal_events is (event_type, event_id), so ON CONFLICT(event_id) names
\* no unique constraint: the statement fails and the job is rolled back.
ProcessGenericStream(data, mapping, entity_name, db) ==
    LET events_batch == StreamBatch(data, mapping, entity_name, 1)
        used_now == \E i \in 1..Len(events_batch) : "now" \in DOMAIN events_batch[i].timestamp
        call == [op |-> "process_generic_stream", rows |-> data, mapping |-> mapping,
                 entity_name |-> entity_name]
    IN  /\ used_now => clock < MaxClock
        /\ clock' = IF used_now THEN clock + 1 ELSE clock
        /\ IF events_batch # <<>> /\ db = "postgres"
           THEN /\ ret' = [status |-> "error", processed |-> 0] @@ call
                /\ UNCHANGED backend_events
           ELSE /\ backend_events' = InsertAll(backend_events, events_batch, FALSE)
                /\ Cardinality(backend_events') <= MaxEvents
                /\ ret' = [status |-> "success", processed |-> Len(data)] @@ call
        /\ UNCHANGED <<universal_events, claims_ledger>>

\* add_node(node_id, name, node_type) of the file engine's DomainManager
\* (src/auctorian/backend/core/domain_model.py); parent_id is left None
NodeIds == {<<"ABC123">>, <<"XYZ9">>}

NodeTypes == {"PRODUCT", "LOCATION"}

AddNode(node_id, name, node_type) ==
    /\ universal_objects' =
          ReplaceObject(universal_objects,
                        [obj_id |-> node_id, obj_type |-> node_type, name |-> name,
                         attributes |-> [parent_id |-> None]])
    /\ ret' = [op |-> "add_node", node_id |-> node_id, name |-> name,
               node_type |-> node_type, status |-> "success"]
    /\ UNCHANGED <<backend_objects, ingestVars>>

\* ------------------------------------------------------------------------
\* The stream engine (src/backend/core/ingestion.py), config type 'OBJECT'
\* ------------------------------------------------------------------------
MaxObjects == 3

StreamObjectMappings ==
    { [obj_id |-> "SKU", name |-> "Store"],
      [obj_id |-> "SKU", name |-> "Label"] }

\* The objects of the table whose id came from uuid.uuid4()
UuidObjects(table) == {o \in table : o.obj_id[1] = "uuid"}

\* The objects_batch of process_generic_stream; n counts the ids uuid4 has
\* given so far, every one different from the others.  attributes is the row
\* json.dumps is given.
RECURSIVE StreamObjectBatch(_, _, _, _, _)
StreamObjectBatch(data, mapping, entity_name, i, n) ==
    IF i > Len(data) THEN <<>>
    ELSE LET row    == data[i]
             mapped == IF IsMapped(row, mapping, "obj_id")
                       THEN MappedGet(row, mapping, "obj_id") ELSE <<>>
             fresh  == mapped = <<>>
             obj_id == IF fresh THEN <<"uuid", ToString(n + 1)>> ELSE mapped
             name   == IF IsMapped(row, mapping, "name")
                       THEN MappedGet(row, mapping, "name") ELSE obj_id
         IN  <<[obj_id |-> obj_id, obj_type |-> entity_name, name |-> name,
                attributes |-> row]>>
             \o StreamObjectBatch(data, mapping, entity_name, i + 1,
                                  IF fresh THEN n + 1 ELSE n)

\* INSERT ... ON CONFLICT(obj_id) DO NOTHING of the rows of a batch
RECURSIVE InsertObjectsOrIgnore(_, _)
InsertObjectsOrIgnore(table, batch) ==
    IF batch = <<>> THEN table
    ELSE InsertObjectsOrIgnore(
            IF \E o \in table : o.obj_id = Head(batch).obj_id
            THEN table ELSE table \cup {Head(batch)},
            Tail(batch))

\* process_generic_stream(data, config) with config type 'OBJECT'.  On
\* PostgreSQL the primary key of universal_objects is (obj_type, obj_id), so
\* ON CONFLICT(obj_id) names no unique constraint: the statement fails and the
\* job is rolled back.
StreamObjects(data, mapping, entity_name, db) ==
    LET objects_batch == StreamObjectBatch(data, mapping, entity_name, 1,
                                           Cardinality(UuidObjects(backend_objects)))
        call == [op |-> "stream_objects", rows |-> data, mapping |-> mapping,
                 entity_name |-> entity_name, db |-> db]
    IN  /\ IF objects_batch # <<>> /\ db = "postgres"
           THEN /\ ret' = [status |-> "error", processed |-> 0] @@ call
                /\ UNCHANGED backend_objects
           ELSE /\ backend_objects' = InsertObjectsOrIgnore(backend_objects, objects_batch)
                /\ Cardinality(backend_objects') <= MaxObjects
                /\ ret' = [status |-> "success", processed |-> Len(data)] @@ call
        /\ UNCHANGED <<universal_objects, ingestVars>>

\* ------------------------------------------------------------------------
\* Initial state and specifications
\* ------------------------------------------------------------------------
vars == <<agencyVars, threadVars, schemaVars, policyVars, ledgerVars, ingestVars,
          debateVars, objectVars, schemaCallVars, ret>>

Init ==
    /\ queue = <<>>
    /\ history = <<>>
    /\ executed_hashes = {}
    /\ status = [p \in AllPkgs |-> "PENDING"]
    /\ ledger_entries = <<>>
    /\ tpc = [t \in Threads |-> "idle"]
    /\ tidx = [t \in Threads |-> 0]
    /\ tshared = [t \in Threads |-> TRUE]
    /\ tlist = [t \in Threads |-> <<>>]
    /\ tres = [t \in Threads |-> <<>>]
    /\ tpkg = [t \in Threads |-> None]
    /\ schema_registry = {}
    /\ system_config = None
    /\ governance_policies = {}
    /\ claims_ledger = <<>>
    /\ clock = 0
    /\ universal_events = {}
    /\ backend_events = {}
    /\ universal_objects = {}
    /\ backend_objects = {}
    /\ debate_tickets = {}
    /\ approvals = {}
    /\ schema_call = NoCall
    /\ ret = [op |-> "init"]

nonAgencyVars == <<schemaVars, policyVars, ledgerVars, ingestVars, debateVars, objectVars,
    schemaCallVars>>

NextAgency ==
    \/ \E p \in Pkgs : QueueDecision(p, MaxQueue) /\ UNCHANGED <<threadVars, nonAgencyVars>>
    \/ ExecuteBatch /\ UNCHANGED <<threadVars, nonAgencyVars>>

SpecAgency == Init /\ [][NextAgency]_vars

NextAgencyConc ==
    \/ \E p \in ConcPkgs :
          QueueDecision(p, MaxConcQueue) /\ UNCHANGED <<threadVars, nonAgencyVars>>
    \/ \E t \in Threads : EBStart(t) /\ UNCHANGED nonAgencyVars
    \/ \E t \in Threads : EBCheck(t) /\ UNCHANGED nonAgencyVars
    \/ \E t \in Threads : EBDispatch(t) /\ UNCHANGED nonAgencyVars
    \/ \E t \in Threads : EBMark(t) /\ UNCHANGED nonAgencyVars
    \/ \E t \in Threads : EBClear(t) /\ UNCHANGED nonAgencyVars

SpecAgencyConc == Init /\ [][NextAgencyConc]_vars

\* DecisionPackage._generate_hash as a function of the five fields
NextHash ==
    \E f \in HashFields, g \in HashFields : GenerateHashes(f, g) /\ UNCHANGED nonAgencyVars

SpecHash == Init /\ [][NextHash]_vars

nonSchemaVars == <<agencyVars, threadVars, policyVars, ledgerVars, ingestVars, debateVars, objectVars,
    schemaCallVars>>

NextSchema ==
    \/ LockSystem /\ UNCHANGED nonSchemaVars
    \/ \E et \in EntityTypes, rows \in SUBSET FieldDefs :
          RegisterSchema(et, rows) /\ UNCHANGED nonSchemaVars
    \/ \E et \in EntityTypes : DeleteSchema(et) /\ UNCHANGED nonSchemaVars
    \/ \E et \in EntityTypes : GetAnchorMap(et) /\ UNCHANGED nonSchemaVars
    \/ \E et \in EntityTypes : DeleteSchemaEndpoint(et) /\ UNCHANGED nonSchemaVars

SpecSchema == Init /\ [][NextSchema]_vars

\* Schema requests interleaved with lock_system
SchemaCallTypes == {"PRODUCT", "SUPPLIER"}

SchemaCallRows ==
    { {FieldDef("sku", None, "ANCHOR_PRODUCT_ID", None),
       FieldDef("display_name", None, "ANCHOR_PRODUCT_NAME", None)},
      {FieldDef("sku", None, "ANCHOR_PRODUCT_ID", None),
       FieldDef("label", None, "ANCHOR_PRODUCT_NAME", "CUSTOM_LABEL")},
      {FieldDef("sku", None, "ANCHOR_PRODUCT_ID", None),
       FieldDef("display_name", None, "ANCHOR_PRODUCT_NAME", None),
       FieldDef("mrp", None, None, None)},
      {FieldDef("mrp", None, None, None)} }

nonSchemaCallVars == <<agencyVars, threadVars, policyVars, ledgerVars, ingestVars,
    debateVars, objectVars>>

NextSchemaCalls ==
    \/ LockSystem /\ UNCHANGED <<nonSchemaCallVars, schemaCallVars>>
    \/ \E et \in SchemaCallTypes, rows \in SchemaCallRows :
          RegisterSchemaCheck(et, rows) /\ UNCHANGED nonSchemaCallVars
    \/ RegisterSchemaStore /\ UNCHANGED nonSchemaCallVars
    \/ \E et \in SchemaCallTypes : DeleteSchemaCheck(et) /\ UNCHANGED nonSchemaCallVars
    \/ DeleteSchemaStore /\ UNCHANGED nonSchemaCallVars

SpecSchemaCalls == Init /\ [][NextSchemaCalls]_vars

nonPolicyVars == <<agencyVars, threadVars, schemaVars, ledgerVars, ingestVars, debateVars, objectVars,
    schemaCallVars>>

NextPolicy ==
    \/ \E k \in PolicyKeys, v \in PolicyValues, e \in PolicyEntities :
          SetPolicy(k, v, e) /\ UNCHANGED nonPolicyVars
    \/ \E k \in PolicyKeys \cup {"MIN_STOCK_DAYS"}, e \in PolicyEntities \cup {None} :
          FetchPolicyCall(k, e) /\ UNCHANGED nonPolicyVars

SpecPolicy == Init /\ [][NextPolicy]_vars

NextValidate ==
    \/ \E k \in ValidateKeys, v \in ValidateLimits, e \in ValidateSetEntities :
          SetPolicy(k, v, e) /\ UNCHANGED nonPolicyVars
    \/ \E c \in ValidateCalls, e \in ValidateEntities, ok \in BOOLEAN :
          ValidateAction(c.action_type, c.value, e, c.context, ok) /\ UNCHANGED nonPolicyVars

SpecValidate == Init /\ [][NextValidate]_vars

\* The debate endpoints, the execute endpoint and the Policy Engine together:
\* approvals remembers every action type validate_action has approved.
DebateCalls ==
    {c \in ValidateCalls :
        \/ c.action_type = "REPLENISH"
        \/ c.action_type = "MARKDOWN" /\ c.value = 45}

NextDebate ==
    \/ \E t \in TicketIds, it \in IssueTypes, ok \in BOOLEAN :
          CreateTicket(t, it, ok)
             /\ UNCHANGED <<threadVars, schemaVars, policyVars, ledgerVars, ingestVars,
                            objectVars, schemaCallVars>>
    \/ \E t \in TicketIds, approved \in BOOLEAN, store \in {"ok", "down", "update_fails"} :
          ResolveTicket(t, approved, store)
             /\ UNCHANGED <<threadVars, schemaVars, policyVars, ledgerVars, ingestVars,
                            objectVars, schemaCallVars>>
    \/ ExecuteBatch /\ UNCHANGED <<threadVars, nonAgencyVars>>
    \/ \E c \in DebateCalls :
          /\ ValidateAction(c.action_type, c.value, "SKU-1", c.context, TRUE)
          /\ approvals' = IF ret'.outcome = "approved"
                          THEN approvals \cup {c.action_type}
                          ELSE approvals
          /\ UNCHANGED <<agencyVars, threadVars, schemaVars, ledgerVars,
                         ingestVars, objectVars, schemaCallVars, debate_tickets>>

SpecDebate == Init /\ [][NextDebate]_vars

nonLedgerVars == <<agencyVars, threadVars, schemaVars, policyVars, ingestVars, debateVars, objectVars,
    schemaCallVars>>

NextLedger ==
    \/ \E pl \in LedgerPayloads, tx \in TxIds, ok \in BOOLEAN :
          LogExecution(pl, "MANUAL_COMMIT", tx, ok) /\ UNCHANGED nonLedgerVars
    \/ \E limit \in 0..MaxLimit, ok \in BOOLEAN :
          GetRecentLogs(limit, ok) /\ UNCHANGED nonLedgerVars
    \/ Tick /\ UNCHANGED nonLedgerVars

SpecLedger == Init /\ [][NextLedger]_vars

\* The write path on a backing store that may fail
StoreEntityTypes == {"PRODUCT", "SUPPLIER"}

StoreRowSets ==
    { {},
      {FieldDef("mrp", None, None, None)},
      {FieldDef("sku", None, "ANCHOR_PRODUCT_ID", None),
       FieldDef("display_name", None, "ANCHOR_PRODUCT_NAME", None)} }

NextStore ==
    \/ \E store \in Stores : LockSystemOn(store) /\ UNCHANGED nonSchemaVars
    \/ \E et \in StoreEntityTypes, rows \in StoreRowSets, store \in Stores :
          RegisterSchemaOn(et, rows, store) /\ UNCHANGED nonSchemaVars
    \/ \E pl \in LedgerPayloads, ok \in BOOLEAN :
          LogExecution(pl, "MANUAL_COMMIT", "TX-0000000A", ok) /\ UNCHANGED nonLedgerVars

SpecStore == Init /\ [][NextStore]_vars

nonIngestVars == <<agencyVars, threadVars, schemaVars, policyVars, debateVars, objectVars,
    schemaCallVars>>

NextIngest ==
    \/ \E rows \in EventFiles, mapping \in EventMappings, entity_name \in EntityNames :
          IngestEvents(rows, mapping, entity_name) /\ UNCHANGED <<nonIngestVars, ledgerVars>>
    \/ \E data \in EventFiles, mapping \in StreamMappings, db \in DbEngines :
          ProcessGenericStream(data, mapping, "SALES_QTY", db) /\ UNCHANGED nonIngestVars

SpecIngest == Init /\ [][NextIngest]_vars

\* The two routes of process_generic_stream of the file engine
NextObjects ==
    \/ \E rows \in ObjectFiles, mapping \in ObjectMappings :
          IngestObjects(rows, mapping, "product")
             /\ UNCHANGED <<agencyVars, threadVars, schemaVars, policyVars, debateVars,
                            ledgerVars, schemaCallVars>>
    \/ \E rows \in EventFiles, mapping \in EventMappings :
          IngestEvents(rows, mapping, "sales_qty")
             /\ UNCHANGED <<nonIngestVars, ledgerVars>>

SpecObjects == Init /\ [][NextObjects]_vars

\* Object ingestion by the two engines
NextUpsert ==
    \/ \E rows \in ObjectFiles, mapping \in ObjectMappings :
          IngestObjects(rows, mapping, "product")
             /\ UNCHANGED <<agencyVars, threadVars, schemaVars, policyVars, debateVars,
                            ledgerVars, schemaCallVars>>
    \/ \E data \in ObjectFiles, mapping \in StreamObjectMappings, db \in DbEngines :
          StreamObjects(data, mapping, "PRODUCT", db)
             /\ UNCHANGED <<agencyVars, threadVars, schemaVars, policyVars, debateVars,
                            ledgerVars, schemaCallVars>>

SpecUpsert == Init /\ [][NextUpsert]_vars

\* Objects of several types written to the table of the file engine
NextObjectTypes ==
    \/ \E rows \in ObjectFiles, mapping \in ObjectMappings,
          entity_name \in {"product", "location"} :
          IngestObjects(rows, mapping, entity_name)
             /\ UNCHANGED <<agencyVars, threadVars, schemaVars, policyVars, debateVars,
                            ledgerVars, schemaCallVars>>
    \/ \E node_id \in NodeIds, node_type \in NodeTypes :
          AddNode(node_id, <<"N">>, node_type)
             /\ UNCHANGED <<agencyVars, threadVars, schemaVars, policyVars, debateVars,
                            ledgerVars, schemaCallVars>>

SpecObjectTypes == Init /\ [][NextObjectTypes]_vars

\* ------------------------------------------------------------------------
\* Claims about the Agency
\* ------------------------------------------------------------------------
IsPrefix(s, t) == Len(s) <= Len(t) /\ \A i \in 1..Len(s) : s[i] = t[i]

\* The positions of a batch that hold a package of hash h.
HashPositions(batch, h) == {i \in 1..Len(batch) : PkgHash(batch[i]) = h}

ResultCount(results, idxs, st) == Cardinality({i \in idxs : results[i].status = st})

\* C1: replay safety.  When execute_batch returns and its batch held exactly two
\* packages of one hash, with a supported action and no failed ledger write,
\* exactly one of the two was executed (result SUCCESS) and exactly one was
\* skipped; two distinct package objects end EXECUTED and SKIPPED.
C1_ReplaySafety ==
    ret.op = "execute_batch" =>
        \A i \in 1..Len(ret.batch) :
            LET idxs == HashPositions(ret.batch, PkgHash(ret.batch[i])) IN
            ( /\ Cardinality(idxs) = 2
              /\ DispatchAccount(ret.batch[i]) # None
              /\ ResultCount(ret.result, idxs, "FAILED") = 0 )
            => /\ ResultCount(ret.result, idxs, "SUCCESS") = 1
               /\ ResultCount(ret.result, idxs, "SKIPPED") = 1
               /\ \A j, k \in idxs :
                    (j < k /\ ret.batch[j] # ret.batch[k])
                    => /\ status[ret.batch[j]] = "EXECUTED"
                       /\ status[ret.batch[k]] = "SKIPPED"

C1_Witness ==
    /\ ret.op = "execute_batch"
    /\ ret.batch = <<"p1", "p2">>
    /\ ret.result = <<[id |-> "p1", status |-> "SUCCESS"],
                      [id |-> "p2", status |-> "SKIPPED"]>>
    /\ Len(ledger_entries) = 1

NoHashTwice(entries) ==
    \A i, j \in 1..Len(entries) : i # j => entries[i].hash # entries[j].hash

\* C2: under any sequence of queue_decision and execute_batch calls the
\* executed-hash set never loses a member, a transaction is only ever recorded
\* for a hash that was not in the set, and no hash has two transactions.
C2_ExecutedOnce ==
    [][ /\ executed_hashes \subseteq executed_hashes'
        /\ IsPrefix(ledger_entries, ledger_entries')
        /\ \A i \in (Len(ledger_entries) + 1)..Len(ledger_entries') :
              ledger_entries'[i].hash \notin executed_hashes
        /\ NoHashTwice(ledger_entries') ]_vars

C2_Witness ==
    /\ ret.op = "execute_batch"
    /\ Len(ledger_entries) = 2
    /\ \E i \in 1..Len(ret.batch) :
          /\ ret.result[i].status = "SKIPPED"
          /\ \E j \in 1..Len(history) :
                /\ PkgHash(history[j]) = PkgHash(ret.batch[i])
                /\ status[history[j]] = "EXECUTED"

\* C3: with execute_batch running in several threads, no package hash gets two
\* ledger transactions (the check of the executed-hash set and the insert into
\* it act as one step).
C3_AtomicCheckAndInsert ==
    \A h \in {PkgHash(p) : p \in Pkgs} :
        Cardinality({i \in 1..Len(ledger_entries) : ledger_entries[i].hash = h}) <= 1

\* The packages of a batch whose result is not SKIPPED, in the order of the
\* batch.
RECURSIVE NotSkipped(_, _, _)
NotSkipped(batch, results, i) ==
    IF i > Len(batch) \/ i > Len(results) THEN <<>>
    ELSE IF results[i].status = "SKIPPED" THEN NotSkipped(batch, results, i + 1)
    ELSE <<batch[i]>> \o NotSkipped(batch, results, i + 1)

\* C11: a failing package does not abort execute_batch.  The call returns one
\* result per queued package, in the order of the queue; a package of an
\* action execute_batch does not know gets the result FAILED; every package
\* that was not skipped, failed ones included, is appended to the history; a
\* package whose last result is FAILED ends in status FAILED; every SUCCESS
\* has its ledger transaction; and the queue is empty afterwards.
C11_FailureIsolation ==
    [][ ret'.op = "execute_batch" =>
          /\ ret'.batch = queue
          /\ queue' = <<>>
          /\ Len(ret'.result) = Len(queue)
          /\ \A i \in 1..Len(queue) :
                /\ ret'.result[i].id = queue[i]
                /\ ret'.result[i].status \in {"SUCCESS", "FAILED", "SKIPPED"}
                /\ DispatchAccount(queue[i]) = None => ret'.result[i].status = "FAILED"
                /\ ( /\ ret'.result[i].status = "FAILED"
                     /\ \A j \in (i + 1)..Len(queue) : queue[j] # queue[i] )
                   => status'[queue[i]] = "FAILED"
          /\ history' = history \o NotSkipped(queue, ret'.result, 1)
          /\ Len(ledger_entries') =
                Len(ledger_entries) + ResultCount(ret'.result, 1..Len(queue), "SUCCESS")
      ]_vars

\* C11, the case of the claim: a batch whose first package has an unknown
\* action and whose second meets a ledger exception, and the third executed.
C11_Witness ==
    /\ ret.op = "execute_batch"
    /\ ret.batch = <<"p4", "p1", "p3">>
    /\ ret.result = <<[id |-> "p4", status |-> "FAILED"],
                      [id |-> "p1", status |-> "FAILED"],
                      [id |-> "p3", status |-> "SUCCESS"]>>
    /\ history = <<"p4", "p1", "p3">>
    /\ queue = <<>>

\* The hashes of the results SUCCESS of a batch
SuccessHashes(results) ==
    {PkgHash(results[i].id) : i \in {j \in 1..Len(results) : results[j].status = "SUCCESS"}}

\* The ledger after the transactions of the results SUCCESS, from result i on
RECURSIVE SuccessRecords(_, _, _)
SuccessRecords(results, i, entries) ==
    IF i > Len(results) THEN entries
    ELSE SuccessRecords(results, i + 1,
            IF results[i].status = "SUCCESS"
            THEN RecordTransaction(entries, results[i].id, DispatchAccount(results[i].id))
            ELSE entries)

\* C30: a package whose execution ends FAILED (unknown action or ledger
\* exception) produces no ledger record and its hash is not added to the
\* executed-hash set: what an execute_batch adds to the ledger and to the set
\* is what its results SUCCESS add, so the hash of a FAILED result is in the
\* set afterwards only if a SUCCESS of the batch has that hash.  queue_decision
\* then accepts the FAILED package again (it is appended to the queue), and a
\* later execute_batch processes it.
C30_FailedLeavesNoTrace ==
    [][ /\ (ret'.op = "execute_batch" /\ ret'.batch = queue) =>
            /\ executed_hashes' = executed_hashes \cup SuccessHashes(ret'.result)
            /\ ledger_entries' = SuccessRecords(ret'.result, 1, ledger_entries)
            /\ \A i \in 1..Len(ret'.result) :
                  ( /\ ret'.result[i].status = "FAILED"
                    /\ PkgHash(ret'.result[i].id) \notin SuccessHashes(ret'.result) )
                  => /\ PkgHash(ret'.result[i].id) \notin executed_hashes'
                     /\ \A k \in 1..Len(ledger_entries') :
                           ledger_entries'[k].hash # PkgHash(ret'.result[i].id)
        /\ ( /\ ret'.op = "queue_decision"
             /\ status[ret'.pkg] = "FAILED"
             /\ PkgHash(ret'.pkg) \notin executed_hashes )
           => /\ ret'.result = "queued"
              /\ queue' = Append(queue, ret'.pkg)
      ]_vars

\* C30, the case of the claim: p1 failed in an earlier batch (it is in the
\* history twice), was queued again, and the batch that held it alone has
\* executed it and recorded its one transaction.
C30_Witness ==
    /\ ret.op = "execute_batch"
    /\ ret.batch = <<"p1">>
    /\ ret.result = <<[id |-> "p1", status |-> "SUCCESS"]>>
    /\ history = <<"p1", "p1">>
    /\ status["p1"] = "EXECUTED"
    /\ Len(ledger_entries) = 1
    /\ PkgHash("p1") \in executed_hashes

\* C12: the status of a package is PENDING until an execute_batch processes
\* it, changes only in an execute_batch that holds the package, goes to
\* EXECUTED, FAILED or SKIPPED, and never changes after that.
C12_StatusStateMachine ==
    [][ \A p \in Pkgs :
          /\ status[p] # "PENDING" => status'[p] = status[p]
          /\ status'[p] # status[p] =>
                /\ ret'.op = "execute_batch"
                /\ \E i \in 1..Len(queue) : queue[i] = p
                /\ status'[p] \in {"EXECUTED", "FAILED", "SKIPPED"} ]_vars

\* C29: resolve_ticket queues at most one Decision Package per debate ticket.
\* resolve_ticket(ticket_id, approved=true) on a ticket that is already
\* RESOLVED queues no further package and leaves the row of the ticket, with
\* its verdict and pkg_id, as it was.
C29_ResolveOnce ==
    [][ \A t \in TicketIds :
           ( /\ \E r \in TicketRows(t) : r.status = "RESOLVED"
             /\ ret'.op = "resolve_ticket"
             /\ ret'.ticket_id = t
             /\ ret'.approved )
           => /\ queue' = queue
              /\ TicketRows(t)' = TicketRows(t) ]_vars

\* C13: only approved decisions are executed.  A necessary condition of the
\* claim: when execute_batch has recorded a Decision Package to the ledger,
\* validate_action has approved the action of that package before.
C13_OnlyApprovedExecuted ==
    \A i \in 1..Len(ledger_entries) :
        \E a \in approvals : <<a>> = PkgAction(ledger_entries[i].pkg_id)

\* The required columns of a job: the target id and the date of events,
\* the id of objects.
RequiredUnresolved(call) ==
    IF call.op = "ingest_events"
    THEN \/ MatchHeader(FileHeaders, call.mapping.Target_ID) = None
         \/ MatchHeader(FileHeaders, call.mapping.Date) = None
    ELSE MatchHeader(FileHeaders, call.mapping.ID) = None

\* C18: an ingestion job whose mapping does not resolve a required column
\* returns the error status, and the objects and events stored after the call
\* are those stored before it.
C18_UnresolvedColumnAborts ==
    [][(ret'.op \in {"ingest_events", "ingest_objects"} /\ RequiredUnresolved(ret'))
          => /\ ret'.status = "error"
             /\ universal_objects' = universal_objects
             /\ universal_events' = universal_events]_vars

\* The events of the well-formed rows of a job of the file engine (the rows
\* of the files have all their columns: no row raises, the errors list of
\* such a job is empty)
WellFormedEvents(call) ==
    LET headers == [target |-> MatchHeader(FileHeaders, call.mapping.Target_ID),
                    date   |-> MatchHeader(FileHeaders, call.mapping.Date),
                    val    |-> MatchHeader(FileHeaders, call.mapping.Value),
                    loc    |-> MatchHeader(FileHeaders, call.mapping.Location_ID)]
    IN  SelectSeq([i \in 1..Len(call.rows) |->
                      EventOfRow(call.rows[i], headers, Upper(call.entity_name))],
                  LAMBDA ev : ev # NoValue)

\* C19: event ingestion is partial-failure tolerant by row.  A job whose
\* required columns resolve reports success with count the number of its
\* well-formed rows, and every one of them is stored after the call (a row
\* with an empty target id or an unparseable date is not among them).
C19_PartialFailureByRow ==
    (ret.op = "ingest_events" /\ ~RequiredUnresolved(ret))
       => LET evs == WellFormedEvents(ret) IN
          /\ ret.status = "success"
          /\ ret.count = Len(evs)
          /\ \A i \in 1..Len(evs) :
                \E e \in universal_events : e.event_id = evs[i].event_id

\* The store failed the call ret records
StoreFailed(r) ==
    \/ "store" \in DOMAIN r /\ r.store # "ok"
    \/ "store_ok" \in DOMAIN r /\ ~r.store_ok

\* The call returned as it does when the write has happened
NormalResult(r) ==
    CASE r.op = "lock_system" -> r.result = "returned"
      [] r.op = "register_schema" -> r.result = "ok"
      [] r.op = "log_execution" -> r.result # None
      [] OTHER -> FALSE

\* C20: on the write path a failure of the backing store is surfaced to the
\* caller: log_execution, lock_system and register_schema do not return a
\* normal result when the store has failed the call.
C20_StoreFailureSurfaced ==
    (ret.op \in {"log_execution", "lock_system", "register_schema"} /\ StoreFailed(ret))
       => ~NormalResult(ret)

\* C21: two packages that differ in the action, the target id, the quantity,
\* the timestamp or the nonce have different hashes.
C21_HashSeparatesFields ==
    (ret.op = "generate_hash" /\ ret.f # ret.g) => ret.hash_f # ret.hash_g

\* For every row of an object job: whether its id is empty, and the object
\* (id, type, name, attributes) the engine makes of the row.
ObjectRows(call) ==
    [i \in 1..Len(call.rows) |->
        IF call.op = "ingest_objects"
        THEN LET ob == ObjectOfRow(call.rows[i], MatchHeader(FileHeaders, call.mapping.ID),
                                   MatchHeader(FileHeaders, call.mapping.Name),
                                   Upper(call.entity_name))
             IN  [empty |-> ob = NoValue, obj |-> ob]
        ELSE [empty |-> ~IsMapped(call.rows[i], call.mapping, "obj_id")
                           \/ MappedGet(call.rows[i], call.mapping, "obj_id") = <<>>,
              obj |-> StreamObjectBatch(<<call.rows[i]>>, call.mapping,
                                        call.entity_name, 1, 0)[1]]]

\* C23: object ingestion is an upsert by id that replaces wholesale.  After a
\* job that succeeded, every object the job has put into the table has the id
\* of a row whose id is not empty (rows with an empty id are skipped), and
\* for every id of the job the table holds one object, with the name and the
\* attributes of the last row of that id.
C23_ObjectUpsert ==
    [][ (ret'.op \in {"ingest_objects", "stream_objects"} /\ ret'.status = "success")
        => LET before == IF ret'.op = "ingest_objects"
                         THEN universal_objects ELSE backend_objects
               after  == IF ret'.op = "ingest_objects"
                         THEN universal_objects' ELSE backend_objects'
               E == ObjectRows(ret')
           IN  /\ \A o \in after \ before :
                     \E i \in DOMAIN E : ~E[i].empty /\ E[i].obj.obj_id = o.obj_id
               /\ \A i \in DOMAIN E :
                     ( /\ ~E[i].empty
                       /\ \A j \in DOMAIN E :
                             j > i => (E[j].empty \/ E[j].obj.obj_id # E[i].obj.obj_id) )
                     => {o \in after : o.obj_id = E[i].obj.obj_id} = {E[i].obj} ]_vars

\* The type a call writes objects of
TypeWritten(call) ==
    IF call.op = "add_node" THEN call.node_type ELSE Upper(call.entity_name)

\* C27: objects are keyed by (type, id).  Writing objects of a type, by
\* ingestion or by add_node, leaves every object of any other type in the
\* table as it was, also one that has the id that is written.
C27_OtherTypesUnchanged ==
    [][ (ret'.op \in {"ingest_objects", "add_node"} /\ ret'.status = "success")
        => \A o \in universal_objects :
              o.obj_type # TypeWritten(ret') => o \in universal_objects' ]_vars

\* C24: no accepted package is lost.  When an execute_batch replaces the
\* queue with an empty one, every package of the list it drops has its
\* outcome, or is still ahead of another execute_batch that iterates that list.
C24_NoAcceptedPackageLost ==
    [][ \A t \in Threads :
          (tpc[t] = "clear" /\ tpc'[t] = "idle")
          => \A i \in 1..Len(queue) :
                \/ status'[queue[i]] \in {"EXECUTED", "FAILED", "SKIPPED"}
                \/ \E u \in Threads \ {t} :
                      /\ tpc[u] \in {"iter", "dispatch", "mark"}
                      /\ tshared[u]
                      /\ tidx[u] <= i ]_vars

\* C10: queue_decision with a hash in the executed-hash set changes nothing;
\* with any other hash it appends the package at the end of the queue and
\* changes nothing else.
C10_QueueDecisionFrame ==
    [][ ret'.op = "queue_decision" =>
          /\ UNCHANGED <<history, executed_hashes, status, ledger_entries>>
          /\ IF PkgHash(ret'.pkg) \in executed_hashes
             THEN queue' = queue /\ ret'.result = "replay"
             ELSE queue' = Append(queue, ret'.pkg) /\ ret'.result = "queued" ]_vars

C10_Witness ==
    /\ ret.op = "queue_decision"
    /\ ret.result = "replay"
    /\ PkgHash(ret.pkg) \in executed_hashes
    /\ queue # <<>>

\* ------------------------------------------------------------------------
\* Claims about the schema registry
\* ------------------------------------------------------------------------

\* The anchors a list of field definitions declares, under either key.
DeclaredAnchors(rows) ==
    ({r.generic_anchor : r \in rows} \cup {r.generic_column_name : r \in rows}) \ {None}

AnchorOf(r) == PyOr(r.generic_column_name, r.generic_anchor)

SourceOf(r) == PyOr(r.source_column_name, r.name)

PairsOf(m) == {<<a, m[a]>> : a \in DOMAIN m}

\* C22 as stated: after register_schema(entity_type, rows) succeeds,
\* get_anchor_map(entity_type) returns exactly the anchor -> source-column
\* pairs declared in rows (rows without an anchor are omitted), and the
\* registry entries of every other entity type are unchanged.
C22_AnchorMapExact ==
    [][ (ret'.op = "register_schema" /\ ret'.result = "ok")
        => /\ \A m \in AnchorMaps(schema_registry', ret'.entity_type) :
                 PairsOf(m) = {<<AnchorOf(r), SourceOf(r)>> :
                                  r \in {x \in ret'.rows : AnchorOf(x) # None}}
           /\ \A et \in EntityTypes \ {ret'.entity_type} :
                 {x \in schema_registry' : x.entity_type = et} = RowsOf(et) ]_vars

\* C22, amended: after register_schema(entity_type, rows) succeeds,
\* get_anchor_map(entity_type) has exactly the anchors declared in rows as its
\* keys, each with a source column that a row of rows declares for that
\* anchor; nothing of an earlier registration of the type is in it, and the
\* registry entries of every other entity type are unchanged.
C22_AnchorMapOfRows ==
    [][ (ret'.op = "register_schema" /\ ret'.result = "ok")
        => /\ \A m \in AnchorMaps(schema_registry', ret'.entity_type) :
                 /\ DOMAIN m = {AnchorOf(r) : r \in ret'.rows} \ {None}
                 /\ \A a \in DOMAIN m :
                       \E r \in ret'.rows : AnchorOf(r) = a /\ SourceOf(r) = m[a]
           /\ {x \in schema_registry' : x.entity_type = ret'.entity_type}
                 = {StoredRow(ret'.entity_type, r) : r \in ret'.rows}
           /\ \A et \in EntityTypes \ {ret'.entity_type} :
                 {x \in schema_registry' : x.entity_type = et} = RowsOf(et) ]_vars

\* C22, the case of the claim: a registration of PRODUCT with a row without
\* an anchor has succeeded while another entity type has entries.
C22_Witness ==
    /\ ret.op = "register_schema"
    /\ ret.result = "ok"
    /\ ret.entity_type = "PRODUCT"
    /\ FieldDef("mrp", None, None, None) \in ret.rows
    /\ RowsOf("SUPPLIER") # {}
    /\ \A m \in AnchorMaps(schema_registry, "PRODUCT") :
          DOMAIN m = {"ANCHOR_PRODUCT_ID", "ANCHOR_PRODUCT_NAME"}

\* C28: whenever the schema registry holds entries for an entity type of the
\* constitution, the anchors stored for that type include every mandatory
\* anchor of the type.
C28_StoredAnchorsMandatory ==
    \A et \in DOMAIN RETAIL_STANDARDS :
        RowsOf(et) # {} =>
           RETAIL_STANDARDS[et] \subseteq {x.generic_anchor : x \in RowsOf(et)}

\* C25: no schema-registry write takes effect after the system is locked,
\* under any interleaving of register_schema or the delete request with
\* lock_system: once the lock is committed, no step of a schema request
\* modifies schema_registry.
C25_NoWriteAfterLock ==
    [][IsSystemLocked => schema_registry' = schema_registry]_vars

\* C6: lock monotonicity.  Once the system is locked it stays locked, the
\* schema registry never changes again, and every register_schema or
\* delete_schema call fails.
C6_LockMonotonic ==
    [][ IsSystemLocked =>
          /\ IsSystemLocked'
          /\ schema_registry' = schema_registry
          /\ (ret'.op \in {"register_schema", "delete_schema", "DELETE /ontology/schema"}
                => ret'.result \in {"PermissionError", "HTTP 423"}) ]_vars

\* ------------------------------------------------------------------------
\* Claims about the policy engine
\* ------------------------------------------------------------------------

\* C7: policy cascade.  fetch_policy returns the value of the row of the entity
\* when there is one, else the value of the GLOBAL row when there is one, else
\* the compiled default.
C7_PolicyCascade ==
    ret.op = "fetch_policy" =>
        LET own == {r \in governance_policies :
                       r.policy_key = ret.key /\ r.entity_id = ret.entity_id}
            global == {r \in governance_policies :
                          r.policy_key = ret.key /\ r.entity_id = "GLOBAL"}
        IN  IF own # {} THEN \E r \in own : ret.result = r.value
            ELSE IF global # {} THEN \E r \in global : ret.result = r.value
            ELSE ret.result = DefaultOf(ret.key)

\* C7, the case of the claim: GLOBAL = 10, an override of 5 for SKU-1, and
\* fetch_policy for SKU-1 has returned 5.
C7_Witness ==
    /\ ret.op = "fetch_policy"
    /\ ret.key = "MAX_AUTO_SPEND"
    /\ ret.entity_id = "SKU-1"
    /\ ret.result = 5
    /\ [entity_id |-> "GLOBAL", policy_key |-> "MAX_AUTO_SPEND", value |-> 10]
          \in governance_policies
    /\ [entity_id |-> "SKU-1", policy_key |-> "MAX_AUTO_SPEND", value |-> 5]
          \in governance_policies

\* The rows of every (entity, key) pair other than (entity_id, key) are as they
\* were, and so is what _fetch_policy can return for key and any other entity.
PolicyFrame(key, entity_id) ==
    /\ \A k \in PolicyKeys, o \in PolicyEntities :
          (k # key \/ o # entity_id) => PolicyRows(k, o)' = PolicyRows(k, o)
    /\ \A o \in (PolicyEntities \cup {None}) \ {entity_id} :
          FetchPolicy(key, o)' = FetchPolicy(key, o)

CascadeLimit(key, entity_id) ==
    LET own == {r \in governance_policies : r.policy_key = key /\ r.entity_id = entity_id}
        global == {r \in governance_policies : r.policy_key = key /\ r.entity_id = "GLOBAL"}
    IN  IF own # {} THEN (CHOOSE r \in own : TRUE).value
        ELSE IF global # {} THEN (CHOOSE r \in global : TRUE).value
        ELSE DefaultOf(key)

\* C14: with the policy store readable, validate_action('MARKDOWN', value,
\* entity_id, context) rejects exactly when value is greater than the
\* MAX_MARKDOWN_DEPTH the cascade gives for entity_id (a value equal to it is
\* approved), and the reason of a rejection names that max depth.
C14_MarkdownDepth ==
    (ret.op = "validate_action" /\ ret.action_type = "MARKDOWN" /\ ret.store_ok) =>
        LET limit == CascadeLimit("MAX_MARKDOWN_DEPTH", ret.entity_id) IN
        /\ ret.outcome \in {"approved", "rejected"}
        /\ ret.outcome = "rejected" <=> ret.value > limit
        /\ ret.outcome = "rejected" =>
              /\ ret.reason.text = "exceeds max depth"
              /\ ret.reason.max_depth = limit

\* C14, the case of the claim: no policy rows, MARKDOWN 45 rejected against
\* the default 40.
C14_Witness ==
    /\ ret.op = "validate_action"
    /\ ret.action_type = "MARKDOWN"
    /\ ret.value = 45
    /\ governance_policies = {}
    /\ ret.outcome = "rejected"
    /\ ret.reason.max_depth = 40

\* C15: with the policy store readable, validate_action('HIKE', value,
\* entity_id, context) rejects exactly when the old price (context's
\* current_price, or value when the context has none) is positive and the
\* change from it to value, in percent, is greater than the MAX_PRICE_HIKE_PCT
\* of the cascade; in every other case, a change equal to the cap and a
\* context without current_price included, it approves.
C15_HikeCap ==
    (ret.op = "validate_action" /\ ret.action_type = "HIKE" /\ ret.store_ok) =>
        LET old_price == IF HasKey(ret.context, "current_price")
                         THEN ret.context.current_price ELSE ret.value
            cap == CascadeLimit("MAX_PRICE_HIKE_PCT", ret.entity_id)
        IN  /\ ret.outcome \in {"approved", "rejected"}
            /\ ret.outcome = "rejected" <=>
                  (old_price > 0 /\ (ret.value - old_price) * 100 > cap * old_price)

\* C16: with the policy store readable, validate_action('ORDER', value,
\* entity_id, context) rejects exactly when the estimated cost is greater than
\* the MAX_AUTO_SPEND of the cascade, the estimated cost being context.cost
\* when the context has a cost and value times 50 otherwise.
C16_OrderSpend ==
    (ret.op = "validate_action" /\ ret.action_type = "ORDER" /\ ret.store_ok) =>
        LET cost == IF HasKey(ret.context, "cost") THEN ret.context.cost ELSE ret.value * 50
            limit == CascadeLimit("MAX_AUTO_SPEND", ret.entity_id)
        IN  /\ ret.outcome \in {"approved", "rejected"}
            /\ ret.outcome = "rejected" <=> cost > limit

\* C16: an order of value 1 (50 by the multiplier) rejected for the cost 51 of
\* its context, against a limit of 50 set for the entity.
C16_Witness ==
    /\ ret.op = "validate_action"
    /\ ret.action_type = "ORDER"
    /\ ret.value = 1
    /\ HasKey(ret.context, "cost")
    /\ ret.context.cost = 51
    /\ ret.entity_id = "SKU-1"
    /\ [entity_id |-> "SKU-1", policy_key |-> "MAX_AUTO_SPEND", value |-> 50]
          \in governance_policies
    /\ ret.outcome = "rejected"

\* C17: validate_action with an action type other than ORDER, HIKE and
\* MARKDOWN approves, whatever the value, the entity and the policy rows, also
\* when the policy store cannot be read; and no validate_action changes a
\* policy row.
C17_UnknownActionApproved ==
    [][ ret'.op = "validate_action" =>
          /\ governance_policies' = governance_policies
          /\ ret'.action_type \notin {"ORDER", "HIKE", "MARKDOWN"} =>
                ret'.outcome = "approved" ]_vars

C17_Witness ==
    /\ ret.op = "validate_action"
    /\ ret.action_type = "TRANSFER"
    /\ ~ret.store_ok
    /\ ret.outcome = "approved"
    /\ \E r \in governance_policies : r.policy_key = "MAX_AUTO_SPEND" /\ r.value = 7

\* ------------------------------------------------------------------------
\* Claims about the ledger
\* ------------------------------------------------------------------------

\* C8: the ledger is append-only.  No step changes or removes a row; a
\* log_execution that returns a transaction id has added exactly one row, the
\* last one, carrying that id, which no row carried before; a log_execution
\* that returns None has added nothing.
C8_AppendOnly ==
    [][ /\ IsPrefix(claims_ledger, claims_ledger')
        /\ (ret'.op = "log_execution" /\ ret'.result # None)
             => /\ Len(claims_ledger') = Len(claims_ledger) + 1
                /\ claims_ledger'[Len(claims_ledger')].tx_id = ret'.result
                /\ \A i \in 1..Len(claims_ledger) : claims_ledger[i].tx_id # ret'.result
        /\ (ret'.op = "log_execution" /\ ret'.result = None)
             => claims_ledger' = claims_ledger ]_vars

\* C9: get_recent_logs(limit) returns the min(limit, n) rows logged last, the
\* row logged last first: a row logged later never comes after a row logged
\* earlier.
C9_RecentLogsOrder ==
    (ret.op = "get_recent_logs" /\ ret.store_ok) =>
        LET n == Len(claims_ledger)
            k == Min(ret.limit, n)
        IN  /\ Len(ret.result) = k
            /\ \A i \in 1..k : ret.result[i] = claims_ledger[n - i + 1]

\* ------------------------------------------------------------------------
\* Claims about event ingestion
\* ------------------------------------------------------------------------
\* Two rows describe the same event: same target, same location, same day
SameEventKey(r1, r2) ==
    /\ r1.SKU = r2.SKU
    /\ r1.Store = r2.Store
    /\ StandardizeDate(r1.Date) = StandardizeDate(r2.Date)

\* Row i of the job names a target and a day, and no later row of the job
\* describes the same event
LastOfItsKey(rows, i) ==
    /\ Strip(rows[i].SKU) # <<>>
    /\ StandardizeDate(rows[i].Date) # NoValue
    /\ \A j \in (i + 1)..Len(rows) : ~SameEventKey(rows[i], rows[j])

\* C4: after a job that ended without an error, every event the job described
\* has exactly one row in the event table, and the row carries the value of
\* the last row of the job that described the event: ingesting a row again
\* adds no row, and ingesting it with another value overwrites the value.
C4_IdempotentIngestion ==
    /\ (ret.op = "process_generic_stream" /\ ret.status = "success"
          /\ ret.mapping.value = "Qty") =>
          \A i \in 1..Len(ret.rows) :
             LastOfItsKey(ret.rows, i) =>
                LET stored == {e \in backend_events :
                                 /\ e.event_type = ret.entity_name
                                 /\ e.primary_target_id = ret.rows[i].SKU
                                 /\ e.timestamp = StandardizeDate(ret.rows[i].Date)}
                IN  /\ Cardinality(stored) = 1
                    /\ \A e \in stored : e.value = CleanNumber(ret.rows[i].Qty)
    /\ (ret.op = "ingest_events" /\ ret.status = "success"
          /\ ret.mapping.Value # None) =>
          \A i \in 1..Len(ret.rows) :
             LastOfItsKey(ret.rows, i) =>
                LET stored == {e \in universal_events :
                                 /\ e.event_type = Upper(ret.entity_name)
                                 /\ e.primary_target_id = Strip(ret.rows[i].SKU)
                                 /\ e.timestamp = StandardizeDate(ret.rows[i].Date)}
                IN  /\ Cardinality(stored) = 1
                    /\ \A e \in stored : e.value = CleanNumber(ret.rows[i].Qty)

====
